---------------------------- MODULE Spec2Model ----------------------------
(***************************************************************************)
(* A model of the location-enrichment core of the WG Field Validator:      *)
(*   - SyncService           (Sync Queue drain passes)                     *)
(*   - LocationDataService   (enrichLocation and its five branches)        *)
(*   - CoreStackService, DynamicWorldService, WeatherService (adapters)    *)
(* Each subsystem has its own specification over the shared variables:     *)
(*   SpecSync    the Sync Queue                                            *)
(*   SpecEnrich  initialisation and enrichLocation                         *)
(*   SpecLegacy  the same for the bounding-box copy of the service         *)
(*   SpecPointData  DynamicWorldService on its own, either copy            *)
(*   SpecWeather    WeatherService.getWeather and its cache                *)
(*   SpecDataset    DatasetManager.getValuesAtPoint over a layer catalog   *)
(*   SpecRepeat     a call of enrichLocation and its repetition            *)
(*   SpecCoreStack  CoreStackService.enrichLocation on its own             *)
(*   SpecSyncFair   the Sync Queue, every awaited operation settling       *)
(*   SpecLoads      the loads of initialize() under concurrent calls       *)
(*   SpecLandCover  the land-cover block over the regional records         *)
(*   SpecOrder      enrichLocation with the settling order recorded        *)
(***************************************************************************)
EXTENDS Integers, Sequences, FiniteSets, TLC

(***************************************************************************)
(* Bounds of the model.                                                    *)
(***************************************************************************)
\* calls of enrichLocation that may be in flight together
MaxEnrich == 2
\* the largest area a class has in a regional record
MaxArea == 2
\* observation ids that may exist in db.observations
MaxObs == 2
\* invocations of the drain (sync closure or enrichPendingObservations)
\* that may be in flight or remembered at once
MaxInv == 2
\* getWeather activations that may overlap
MaxWx == 2
\* calls of getWeather in a behaviour
MaxCalls == 2
\* the last value of the clock
MaxTime == 3

ObsIds == 1..MaxObs
Invs == 1..MaxInv

NULL == "null"

VARIABLES
  \* ---- browser / adapters -------------------------------------------
  navOnline,      \* navigator.onLine; the adapters mirror it in isOnline
  apiKey,         \* CoreStackService.apiKey
  storedKey,      \* localStorage 'corestack_api_key': NULL until the user
                  \* sets a key
  \* ---- SyncService --------------------------------------------------
  syncStatus,     \* SyncService.syncStatus
  observations,   \* db.observations: id -> "none" | "unsynced" | "synced" | "gone"
  autoSync,       \* startAutoSync has installed its timer and listener
  inv,            \* the activations of enrichPendingObservations in flight
  enrichCount,    \* history: times each record was written synced = true
  lastEvent,      \* history: what the step just taken did (see NoEvent)
  \* ---- LocationDataService and the adapters it owns ------------------
  version,        \* which copy of the services is built: "current" | "legacy"
  initialized,    \* LocationDataService.initialized
  boundaries,     \* LocationDataService.boundaries: id -> loaded, geojson
  blocksLoaded,   \* LocationDataService.localCoreStackData.loaded
  loadedData,     \* DatasetManager.loadedData: the layers that are loaded
  dw,             \* DynamicWorldService: dataLoaded, cachedData
  call,           \* the activation of enrichLocation in flight, or its result
  pointData,      \* what the last call of fetchPointData returned, if any
  \* ---- WeatherService ------------------------------------------------
  clock,          \* Date.now()
  weatherCache,   \* WeatherService.cache: key -> entry
  wx,             \* the activations of getWeather
  wxCount,        \* history: the calls of getWeather so far
  \* ---- a DatasetManager queried on its own ---------------------------
  layerData,      \* loadedData / geojsonLayers: id -> loaded, data
  query,          \* history: the last call of getValuesAtPoint on the data
                  \* as it is now, and what it returned
  \* ---- a caller that repeats a call of enrichLocation -----------------
  prev,           \* history: the call before the repeated one
  \* ---- CoreStackService.enrichLocation called on its own ---------------
  cs,             \* the activation: its position, the requests it has sent,
                  \* what it has gathered, its return value
  \* ---- several calls of enrichLocation and the files they load ---------
  ini,            \* the activations: the await each one is at
  loads,          \* history: the fetches issued for each static file, the
                  \* files whose load has failed, the files fetched again
                  \* by a query after that
  \* ---- the land-cover branch on a loaded cache -------------------------
  lc,             \* history: what getRegionalStats and getLandCoverData
                  \* returned for the cache as it is
  \* ---- the order in which the branches of a call settle ----------------
  tracing         \* whether call.order is kept (it is history, kept only
                  \* where a property speaks of it)

adapterVars == <<navOnline, apiKey, storedKey>>
syncVars == <<syncStatus, observations, autoSync, inv, enrichCount, lastEvent>>
weatherVars == <<clock, weatherCache, wx, wxCount>>
datasetVars == <<layerData, query>>
loadVars == <<ini, loads>>
auxVars == <<weatherVars, datasetVars, prev, cs, loadVars, lc, tracing>>
enrichVars == <<version, initialized, boundaries, blocksLoaded,
                loadedData, dw, call, pointData, auxVars>>
vars == <<adapterVars, syncVars, enrichVars>>

(***************************************************************************)
(* CoreStackService: credential and availability.                          *)
(***************************************************************************)
\* the key compiled into the client
DEFAULT_API_KEY == "default_key"
\* what the user may type into the key dialog (trimmed input, may be empty)
UserKeys == {"", "user_key"}

\* constructor: localStorage.getItem('corestack_api_key') || DEFAULT_API_KEY
ConstructApiKey(stored) == IF stored = NULL \/ stored = "" THEN DEFAULT_API_KEY ELSE stored

hasApiKey == apiKey # NULL /\ apiKey # ""

isAvailable == navOnline /\ hasApiKey

(***************************************************************************)
(* SyncService.  An activation of enrichPendingObservations occupies a     *)
(* slot of inv from its first await to its return.  lastEvent labels the   *)
(* step just taken: a trigger of the drain and what it did, or one         *)
(* record's result; it is NoEvent after any other step.                    *)
(* syncStatus.pendingObservations and pendingImages are display counters   *)
(* no other code reads; they are left out, the await of                    *)
(* updatePendingCounts is kept; the results list, complete when the loop   *)
(* ends, is tracked while the loop runs.  An entry of syncStatus.errors,   *)
(* `Observation ${id}: ${error}`, is modelled by the record's id (every    *)
(* message the code produces is non-empty).                                *)
(***************************************************************************)
IdleInv == [pc |-> "idle", pending |-> <<>>, idx |-> 0, results |-> <<>>,
            threw |-> FALSE]

NoEvent == [kind |-> "none", via |-> "none", busy |-> FALSE, online |-> FALSE,
            id |-> 0, success |-> FALSE]

\* a trigger of the drain: what it did, who fired it, what it found
Trigger(kind, via) == [NoEvent EXCEPT !.kind = kind, !.via = via,
                                      !.busy = syncStatus.isSyncing,
                                      !.online = navOnline']

\* db.observations.filter(obs => !obs.synced).toArray(): primary-key order
RECURSIVE PendingFrom(_, _)
PendingFrom(obs, k) ==
  IF k > MaxObs THEN <<>>
  ELSE (IF obs[k] = "unsynced" THEN <<k>> ELSE <<>>) \o PendingFrom(obs, k + 1)

PendingObservations(obs) == PendingFrom(obs, 1)

\* the single-flight guard of enrichPendingObservations
AlreadySyncing_NoGuard == FALSE

AlreadySyncing == syncStatus.isSyncing

\* the lowest free activation slot
FreeSlot(i) == /\ inv[i].pc = "idle"
               /\ \A j \in Invs : j < i => inv[j].pc # "idle"

\* enrichPendingObservations up to its first await
EnrichPendingObservations(via) ==
  IF AlreadySyncing
  THEN /\ lastEvent' = Trigger("returned_empty", via)
       /\ UNCHANGED <<syncStatus, inv>>
  ELSE \E i \in Invs :
         /\ FreeSlot(i)
         /\ syncStatus' = [syncStatus EXCEPT !.isSyncing = TRUE, !.errors = <<>>]
         /\ inv' = [inv EXCEPT ![i] = [IdleInv EXCEPT !.pc = "read"]]
         /\ lastEvent' = Trigger("started", via)

\* a variant of the sync closure: the connectivity is not looked at
SyncClosure_IgnoresNetwork(via) ==
  IF ~syncStatus.isSyncing
  THEN EnrichPendingObservations(via)
  ELSE /\ lastEvent' = Trigger("not_called", via)
       /\ UNCHANGED <<syncStatus, inv>>

\* the sync closure of startAutoSync
SyncClosure(via) ==
  IF navOnline' /\ ~syncStatus.isSyncing
  THEN EnrichPendingObservations(via)
  ELSE /\ lastEvent' = Trigger("not_called", via)
       /\ UNCHANGED <<syncStatus, inv>>

\* startAutoSync: the initial sync, then the timer and the listener
StartAutoSync ==
  /\ UNCHANGED enrichVars
  /\ ~autoSync
  /\ autoSync' = TRUE
  /\ UNCHANGED <<adapterVars, observations, enrichCount>>
  /\ SyncClosure("initial")

\* the cleanup function startAutoSync returns
StopAutoSync ==
  /\ UNCHANGED enrichVars
  /\ autoSync
  /\ autoSync' = FALSE
  /\ lastEvent' = NoEvent
  /\ UNCHANGED <<adapterVars, syncStatus, observations, inv, enrichCount>>

\* setInterval(sync, intervalMs)
TimerFires ==
  /\ UNCHANGED enrichVars
  /\ autoSync
  /\ UNCHANGED <<adapterVars, observations, autoSync, enrichCount>>
  /\ SyncClosure("timer")

\* the browser goes online: the adapters' listeners, then handleOnline
GoOnline ==
  /\ UNCHANGED enrichVars
  /\ ~navOnline
  /\ navOnline' = TRUE
  /\ UNCHANGED <<apiKey, storedKey, observations, autoSync, enrichCount>>
  /\ IF autoSync THEN SyncClosure("online")
     ELSE /\ lastEvent' = NoEvent
          /\ UNCHANGED <<syncStatus, inv>>

GoOffline ==
  /\ UNCHANGED enrichVars
  /\ navOnline
  /\ navOnline' = FALSE
  /\ lastEvent' = NoEvent
  /\ UNCHANGED <<apiKey, storedKey, syncStatus, observations, autoSync, inv, enrichCount>>

\* a caller other than the sync closure
DirectCall ==
  /\ UNCHANGED enrichVars
  /\ UNCHANGED <<adapterVars, observations, autoSync, enrichCount>>
  /\ EnrichPendingObservations("direct")

\* the finally block: isSyncing = false, then await updatePendingCounts()
Finally(st) == [st EXCEPT !.isSyncing = FALSE]

Failure(id, err) == [id |-> id, success |-> FALSE, error |-> err]
Success(id) == [id |-> id, success |-> TRUE, error |-> ""]

\* one record's result is pushed; the loop goes on or the pass ends
Settle(i, res) ==
  LET a == inv[i]
      st1 == IF ~res.success /\ res.error # ""
             THEN [syncStatus EXCEPT !.errors = Append(@, res.id)]
             ELSE syncStatus
      last == a.idx = Len(a.pending)
  IN /\ inv' = [inv EXCEPT ![i] =
                  IF last
                  THEN [IdleInv EXCEPT !.pc = "counts"]
                  ELSE [a EXCEPT !.results = Append(@, res.success),
                                 !.idx = @ + 1, !.pc = "get"]]
     /\ syncStatus' = IF last THEN Finally([st1 EXCEPT !.lastSync = "date"])
                      ELSE st1
     /\ lastEvent' = [NoEvent EXCEPT !.kind = "settled", !.id = res.id,
                                     !.success = res.success]

\* a variant of the exception path: the flag is reset at the end of the
\* try block only, so an exception leaves it set
Throw_KeepsFlag(i) ==
  /\ inv' = [inv EXCEPT ![i] = [IdleInv EXCEPT !.pc = "counts", !.threw = TRUE]]
  /\ UNCHANGED syncStatus
  /\ lastEvent' = NoEvent

\* an exception leaves the try block
Throw(i) ==
  /\ inv' = [inv EXCEPT ![i] = [IdleInv EXCEPT !.pc = "counts", !.threw = TRUE]]
  /\ syncStatus' = Finally(syncStatus)
  /\ lastEvent' = NoEvent

\* await db.observations.filter(...).toArray()
ReadPending(i) ==
  /\ UNCHANGED enrichVars
  /\ inv[i].pc = "read"
  /\ \E dbok \in BOOLEAN :
       IF ~dbok THEN Throw(i)
       ELSE LET p == PendingObservations(observations)
            IN /\ lastEvent' = NoEvent
               /\ IF p = <<>>
                  THEN /\ inv' = [inv EXCEPT ![i] = [@ EXCEPT !.pc = "counts"]]
                       /\ syncStatus' = Finally([syncStatus EXCEPT !.lastSync = "date"])
                  ELSE /\ inv' = [inv EXCEPT ![i] = [@ EXCEPT !.pc = "get",
                                                              !.pending = p, !.idx = 1]]
                       /\ UNCHANGED syncStatus
  /\ UNCHANGED <<adapterVars, observations, autoSync, enrichCount>>

\* enrichObservation: await db.observations.get(id), then the availability check
GetObservation(i) ==
  /\ UNCHANGED enrichVars
  /\ inv[i].pc = "get"
  /\ LET id == inv[i].pending[inv[i].idx]
     IN \E dbok \in BOOLEAN :
          IF ~dbok THEN Throw(i)
          ELSE IF observations[id] \notin {"unsynced", "synced"}
          THEN Settle(i, Failure(id, "Observation not found"))
          ELSE IF ~isAvailable
          THEN Settle(i, Failure(id, "CoreStack API not available"))
          ELSE /\ inv' = [inv EXCEPT ![i] = [@ EXCEPT !.pc = "remote"]]
               /\ lastEvent' = NoEvent
               /\ UNCHANGED syncStatus
  /\ UNCHANGED <<adapterVars, observations, autoSync, enrichCount>>

\* await coreStackService.enrichLocation(lat, lon): a value with or without error
RemoteReturns(i) ==
  /\ UNCHANGED enrichVars
  /\ inv[i].pc = "remote"
  /\ LET id == inv[i].pending[inv[i].idx]
     IN \E err \in {"", "API error"} :
          IF err # ""
          THEN Settle(i, Failure(id, err))
          ELSE /\ inv' = [inv EXCEPT ![i] = [@ EXCEPT !.pc = "update"]]
               /\ lastEvent' = NoEvent
               /\ UNCHANGED syncStatus
  /\ UNCHANGED <<adapterVars, observations, autoSync, enrichCount>>

\* await db.observations.update(id, {datasetValues, synced: true})
UpdateObservation(i) ==
  /\ UNCHANGED enrichVars
  /\ inv[i].pc = "update"
  /\ LET id == inv[i].pending[inv[i].idx]
     IN \E dbok \in BOOLEAN :
          IF ~dbok
          THEN /\ Settle(i, Failure(id, "db error"))
               /\ UNCHANGED <<observations, enrichCount>>
          ELSE /\ Settle(i, Success(id))
               /\ IF observations[id] \in {"unsynced", "synced"}
                  THEN /\ observations' = [observations EXCEPT ![id] = "synced"]
                       /\ enrichCount' = [enrichCount EXCEPT ![id] = @ + 1]
                  ELSE UNCHANGED <<observations, enrichCount>>
  /\ UNCHANGED <<adapterVars, autoSync>>

\* await updatePendingCounts(), then the return of results (or the rethrow)
UpdatePendingCounts(i) ==
  /\ UNCHANGED enrichVars
  /\ inv[i].pc = "counts"
  /\ inv' = [inv EXCEPT ![i] = IdleInv]
  /\ lastEvent' = NoEvent
  /\ UNCHANGED <<adapterVars, syncStatus, observations, autoSync, enrichCount>>

\* saveObservation: a new record, synced = false
AddObservation ==
  /\ UNCHANGED enrichVars
  /\ \E id \in ObsIds :
       /\ observations[id] = "none"
       /\ \A j \in ObsIds : j < id => observations[j] # "none"
       /\ observations' = [observations EXCEPT ![id] = "unsynced"]
  /\ lastEvent' = NoEvent
  /\ UNCHANGED <<adapterVars, syncStatus, autoSync, inv, enrichCount>>

\* the user deletes a record
DeleteObservation ==
  /\ UNCHANGED enrichVars
  /\ \E id \in ObsIds :
       /\ observations[id] \in {"unsynced", "synced"}
       /\ observations' = [observations EXCEPT ![id] = "gone"]
  /\ lastEvent' = NoEvent
  /\ UNCHANGED <<adapterVars, syncStatus, autoSync, inv, enrichCount>>

\* CoreStackService.setApiKey(input.value.trim())
SetApiKey ==
  /\ UNCHANGED enrichVars
  /\ \E k \in UserKeys : apiKey' = k /\ storedKey' = k
  /\ lastEvent' = NoEvent
  /\ UNCHANGED <<navOnline, syncStatus, observations, autoSync, inv, enrichCount>>

(***************************************************************************)
(* CoreStackService.enrichLocation, called on its own (a panel, the header *)
(* search, the sync pass).  The activation sends its requests one after    *)
(* the other; sent lists the endpoints a fetch was issued for, and         *)
(* keyed[k] tells whether the k-th carried a non-empty X-API-Key.          *)
(***************************************************************************)
NoCsResult == [present |-> FALSE]

IdleCs ==
  [pc |-> "idle", available |-> FALSE, sent |-> << >>, keyed |-> << >>,
   admin |-> FALSE, stateCode |-> FALSE, districtCode |-> FALSE,
   mwsId |-> FALSE, indicators |-> FALSE, layerUrls |-> FALSE,
   waterbodies |-> FALSE, result |-> NoCsResult]

\* return { error }
CsError(c, msg) ==
  [IdleCs EXCEPT !.pc = "done", !.available = c.available, !.sent = c.sent,
                 !.keyed = c.keyed,
                 !.result = [present |-> TRUE, error |-> msg, admin |-> FALSE,
                             mwsId |-> FALSE, indicators |-> FALSE,
                             layerUrls |-> FALSE, waterbodies |-> FALSE]]

\* return { admin, mwsId, indicators, layerUrls, waterbodies }
CsReturn(c) ==
  [IdleCs EXCEPT !.pc = "done", !.available = c.available, !.sent = c.sent,
                 !.keyed = c.keyed,
                 !.result = [present |-> TRUE, error |-> "", admin |-> c.admin,
                             mwsId |-> c.mwsId, indicators |-> c.indicators,
                             layerUrls |-> c.layerUrls,
                             waterbodies |-> c.waterbodies]]

\* a variant of request(): the fetch is issued whatever the connectivity
\* and the key are
CanRequest_Unguarded == TRUE

\* request(): it throws before any fetch when offline or without a key
CanRequest == navOnline /\ apiKey # NULL /\ apiKey # ""

\* fetch(url, {headers: {'X-API-Key': this.apiKey}}) is issued
CsSend(c, endpoint) ==
  [c EXCEPT !.pc = endpoint, !.sent = Append(@, endpoint),
            !.keyed = Append(@, apiKey # NULL /\ apiKey # "")]

\* the activation from the given stage on, to its next fetch or its return;
\* a request that throws inside an inner try is skipped
RECURSIVE CsFrom(_, _)
CsFrom(c, stage) ==
  CASE stage = "mws" ->
         IF CanRequest THEN CsSend(c, "mws") ELSE CsFrom(c, "layers")
    [] stage = "kyl" ->
         IF c.mwsId /\ CanRequest THEN CsSend(c, "kyl") ELSE CsFrom(c, "layers")
    [] stage = "layers" ->
         IF c.stateCode /\ c.districtCode /\ CanRequest
         THEN CsSend(c, "layers") ELSE CsFrom(c, "waterbodies")
    [] stage = "waterbodies" ->
         IF c.districtCode /\ CanRequest
         THEN CsSend(c, "waterbodies") ELSE CsReturn(c)

\* coreStackService.enrichLocation(lat, lon), to its first fetch
CoreStackEnrichLocation ==
  /\ cs.pc \in {"idle", "done"}
  /\ LET c == [IdleCs EXCEPT !.available = isAvailable]
     IN cs' = IF ~isAvailable THEN CsError(c, "CoreStack API not available")
              ELSE IF CanRequest THEN CsSend(c, "admin")
              ELSE CsError(c, "request threw")
  /\ UNCHANGED <<adapterVars, syncVars, weatherVars, datasetVars, prev, lc, tracing, loadVars, version,
                 initialized, boundaries, blocksLoaded, loadedData, dw, call,
                 pointData>>

\* the pending fetch answers, and the activation goes on to its next fetch
\* or returns
CoreStackAnswers ==
  /\ cs.pc \in {"admin", "mws", "kyl", "layers", "waterbodies"}
  /\ \E ok \in BOOLEAN, state, district, mws \in BOOLEAN :
       cs' = CASE cs.pc = "admin" ->
                    IF ok THEN CsFrom([cs EXCEPT !.admin = TRUE,
                                                 !.stateCode = state,
                                                 !.districtCode = district], "mws")
                    ELSE CsError(cs, "API error")
               [] cs.pc = "mws" ->
                    IF ok THEN CsFrom([cs EXCEPT !.mwsId = mws], "kyl")
                    ELSE CsFrom(cs, "layers")
               [] cs.pc = "kyl" ->
                    CsFrom([cs EXCEPT !.indicators = ok], "layers")
               [] cs.pc = "layers" ->
                    CsFrom([cs EXCEPT !.layerUrls = ok], "waterbodies")
               [] cs.pc = "waterbodies" ->
                    CsReturn([cs EXCEPT !.waterbodies = ok])
  /\ UNCHANGED <<adapterVars, syncVars, weatherVars, datasetVars, prev, lc, tracing, loadVars, version,
                 initialized, boundaries, blocksLoaded, loadedData, dw, call,
                 pointData>>

\* the adapter queried on its own while the network and the key change
NextCoreStack ==
  \/ GoOnline
  \/ GoOffline
  \/ SetApiKey
  \/ CoreStackEnrichLocation
  \/ CoreStackAnswers

(***************************************************************************)
(* Values.  Coordinates are in tenths of a degree.  A JavaScript value     *)
(* that may be missing is the string UNDEFINED; a block of the result that *)
(* is not there is a record with present = FALSE.                          *)
(***************************************************************************)
UNDEFINED == "undefined"

\* JavaScript truthiness of a string or missing value
Truthy(v) == v \notin {UNDEFINED, NULL, ""}

\* a || b
Or(a, b) == IF Truthy(a) THEN a ELSE b

Point(lat, lon) == [lat |-> lat, lon |-> lon]

\* the sample points of the model
P_DK == Point(129, 748)
P_DKBOX == Point(134, 757)
P_WGBOX == Point(205, 778)
Points == {P_DK, P_DKBOX, P_WGBOX}

Rect(latMin, latMax, lonMin, lonMax) ==
  [latMin |-> latMin, latMax |-> latMax, lonMin |-> lonMin, lonMax |-> lonMax]

\* the outlines in the shipped boundary files (rectangles stand for them)
DKRect == Rect(126, 132, 747, 754)
WGRect == Rect(90, 200, 735, 775)

\* properties[key] of a GeoJSON feature
Get(props, key) == IF key \in DOMAIN props THEN props[key] ELSE UNDEFINED

NoProps == [k \in {} |-> UNDEFINED]

\* a GeoJSON feature; bad marks a geometry on which turf throws
Feature(type, rect, bad, props) ==
  [type |-> type, rect |-> rect, bad |-> bad, properties |-> props]

\* a district file whose outline names its state and district; before it a
\* polygon turf cannot read and a feature that is no polygon
DK_NAMED ==
  << Feature("Polygon", DKRect, TRUE, NoProps),
     Feature("LineString", DKRect, FALSE, NoProps),
     Feature("Polygon", DKRect, FALSE,
             ("state" :> "Karnataka") @@ ("DISTRICT" :> "dakshina  kannada ")) >>

\* a district file whose outline carries no properties
DK_BARE == << Feature("Polygon", DKRect, FALSE, NoProps) >>

\* the contents the district boundary file may have
DKFiles == {DK_NAMED, DK_BARE}

\* /data/boundaries/western_ghats_boundary.geojson: the outline, then a
\* polygon turf cannot read
WG_FILE ==
  << Feature("Polygon", WGRect, FALSE, ("REC_NUM" :> "1") @@ ("DATA_VALUE" :> "WG")),
     Feature("Polygon", WGRect, TRUE, NoProps) >>

BoundaryIds == {"dakshina_kannada", "western_ghats"}

\* the contents the file behind a boundary id may have (boundaryPaths)
BoundaryFiles(id) == IF id = "dakshina_kannada" THEN DKFiles ELSE {WG_FILE}

\* an entry of LocationDataService.boundaries
NotLoaded == [loaded |-> FALSE, geojson |-> << >>]
Loaded(geojson) == [loaded |-> TRUE, geojson |-> geojson]

\* /data/corestack/dakshina_kannada_corestack_blocks.csv, parsed
BLOCKS ==
  << [state |-> "Karnataka", district |-> "Udupi", block |-> "Karkala"],
     [state |-> "Karnataka", district |-> "Dakshina  Kannada", block |-> "Mangalore"] >>

\* s.toLowerCase().replace(/\s+/g, ' ').trim() on the district names in use
Normalize(s) ==
  IF s \in {"Dakshina Kannada", "Dakshina  Kannada", "dakshina  kannada "}
  THEN "dakshina kannada"
  ELSE IF s = "Udupi" THEN "udupi" ELSE s

\* turf.booleanPointInPolygon(point, feature): the boundary counts as inside
booleanPointInPolygon(p, feature) ==
  /\ feature.rect.latMin <= p.lat /\ p.lat <= feature.rect.latMax
  /\ feature.rect.lonMin <= p.lon /\ p.lon <= feature.rect.lonMax

IsPolygon(feature) == feature.type \in {"Polygon", "MultiPolygon"}

\* the index of the first feature from k on that contains p, 0 if none;
\* a feature on which turf throws is skipped (the catch in the loop)
RECURSIVE FirstContaining(_, _, _)
FirstContaining(features, p, k) ==
  IF k > Len(features) THEN 0
  ELSE IF /\ IsPolygon(features[k])
          /\ ~features[k].bad
          /\ booleanPointInPolygon(p, features[k])
       THEN k
       ELSE FirstContaining(features, p, k + 1)

isPointInBoundary(p, boundaryId) ==
  IF ~boundaries[boundaryId].loaded
  THEN [inside |-> FALSE, properties |-> NoProps]
  ELSE LET features == boundaries[boundaryId].geojson
           k == FirstContaining(features, p, 1)
       IN IF k = 0
          THEN [inside |-> FALSE, properties |-> NoProps]
          ELSE [inside |-> TRUE, properties |-> features[k].properties]

(***************************************************************************)
(* LocationDataService: the branches of enrichLocation.  A branch settles  *)
(* as a record: status "fulfilled" with a value, or "rejected".            *)
(***************************************************************************)
NoBlock == [present |-> FALSE]

Pending == [status |-> "pending", value |-> NoBlock]
Fulfilled(v) == [status |-> "fulfilled", value |-> v]
Rejected == [status |-> "rejected", value |-> NoBlock]

AdminBlock(state, district, tehsil, block, source, confidence) ==
  [present |-> TRUE, state |-> state, district |-> district, tehsil |-> tehsil,
   block |-> block, source |-> source, confidence |-> confidence]

\* getLocalBlockData(district); threw: district.toLowerCase() on undefined
getLocalBlockData(district) ==
  IF ~blocksLoaded THEN [threw |-> FALSE, block |-> UNDEFINED]
  ELSE IF district = UNDEFINED THEN [threw |-> TRUE, block |-> UNDEFINED]
  ELSE LET match == {k \in 1..Len(BLOCKS) :
                       Normalize(BLOCKS[k].district) = Normalize(district)}
       IN IF match = {} THEN [threw |-> FALSE, block |-> UNDEFINED]
          ELSE [threw |-> FALSE,
                block |-> BLOCKS[CHOOSE k \in match : \A j \in match : k <= j].block]

\* getAdminData after the remote stage: the boundary polygons, most
\* specific first
BoundaryAdmin(p) ==
  LET dkCheck == isPointInBoundary(p, "dakshina_kannada")
      wgCheck == isPointInBoundary(p, "western_ghats")
      state == Or(Get(dkCheck.properties, "ST_NM"), Get(dkCheck.properties, "state"))
      district == Or(Get(dkCheck.properties, "DISTRICT"),
                     Get(dkCheck.properties, "district"))
      localBlock == getLocalBlockData(district)
  IN IF dkCheck.inside
     THEN IF localBlock.threw THEN Rejected
          ELSE Fulfilled(AdminBlock(Or(state, "Karnataka"),
                                    Or(district, "Dakshina Kannada"),
                                    UNDEFINED, localBlock.block,
                                    "boundary_geojson", "verified"))
     ELSE IF wgCheck.inside
     THEN Fulfilled(AdminBlock("Within Western Ghats", UNDEFINED, UNDEFINED,
                               UNDEFINED, "boundary_geojson", "verified"))
     ELSE Fulfilled(NoBlock)

\* the legacy getAdminData after the remote stage: bounding boxes
BoundingBoxAdmin(p) ==
  LET isInWesternGhats == p.lat >= 80 /\ p.lat <= 210 /\ p.lon >= 730 /\ p.lon <= 780
      isInDK == p.lat >= 125 /\ p.lat <= 135 /\ p.lon >= 745 /\ p.lon <= 758
  IN IF isInWesternGhats
     THEN IF isInDK
          THEN Fulfilled(AdminBlock("Karnataka", "Dakshina Kannada (estimated)",
                                    UNDEFINED, UNDEFINED, "local", UNDEFINED))
          ELSE Fulfilled(AdminBlock("Western Ghats Region", UNDEFINED, UNDEFINED,
                                    UNDEFINED, "local", UNDEFINED))
     ELSE Fulfilled(NoBlock)

LocalAdmin(p) == IF version = "current" THEN BoundaryAdmin(p) ELSE BoundingBoxAdmin(p)

\* what GET /get_admin_details_by_latlon/ may answer: a named place, an
\* answer with no state and no district, or an error status (HTTP 500)
AdminResponses ==
  { [ok |-> TRUE, state_name |-> "Karnataka", district_name |-> "Udupi",
     tehsil_name |-> "Karkala"],
    [ok |-> TRUE, state_name |-> UNDEFINED, district_name |-> UNDEFINED,
     tehsil_name |-> UNDEFINED],
    [ok |-> FALSE, state_name |-> UNDEFINED, district_name |-> UNDEFINED,
     tehsil_name |-> UNDEFINED] }

\* getAdminData once the remote call has answered
RemoteAdmin(p, resp) ==
  IF resp.ok /\ (Truthy(resp.state_name) \/ Truthy(resp.district_name))
  THEN Fulfilled(AdminBlock(resp.state_name, resp.district_name, resp.tehsil_name,
                            UNDEFINED,
                            IF version = "current" THEN "corestack_api" ELSE "corestack",
                            IF version = "current" THEN "verified" ELSE UNDEFINED))
  ELSE LocalAdmin(p)

(***************************************************************************)
(* DynamicWorldService.  Areas are whole numbers; a percentage is kept in  *)
(* hundredths of a percent.                                                *)
(***************************************************************************)
DWRow(year, water, trees, grass, floodedVegetation, crops, shrubAndScrub, built, bare, snowAndIce) ==
  [year |-> year, water |-> water, trees |-> trees, grass |-> grass,
   floodedVegetation |-> floodedVegetation, crops |-> crops,
   shrubAndScrub |-> shrubAndScrub, built |-> built, bare |-> bare,
   snowAndIce |-> snowAndIce]

ZeroRow == DWRow(0, 0, 0, 0, 0, 0, 0, 0, 0, 0)

\* the contents /data/dynamicworld/wg_dynamic_world_2018_2025.csv may have
DW_EMPTY == << >>
DW_ZERO == << DWRow(2018, 0, 0, 0, 0, 0, 0, 0, 0, 0) >>
DW_NORMAL == << DWRow(2018, 2, 60, 3, 1, 20, 8, 4, 2, 0),
                DWRow(2025, 2, 30, 3, 1, 40, 8, 14, 2, 0) >>
DWFiles == {DW_EMPTY, DW_ZERO, DW_NORMAL}

\* DW_CLASSES, in the order the code lists them, with the record field of each
DW_CLASSES ==
  << "Water", "Trees", "Grass", "Flooded Vegetation", "Crops",
     "Shrub and Scrub", "Built", "Bare", "Snow and Ice" >>

ClassArea(stats, cls) ==
  CASE cls = "Water" -> stats.water
    [] cls = "Trees" -> stats.trees
    [] cls = "Grass" -> stats.grass
    [] cls = "Flooded Vegetation" -> stats.floodedVegetation
    [] cls = "Crops" -> stats.crops
    [] cls = "Shrub and Scrub" -> stats.shrubAndScrub
    [] cls = "Built" -> stats.built
    [] cls = "Bare" -> stats.bare
    [] cls = "Snow and Ice" -> stats.snowAndIce

\* getRegionalStats() in the service state d: the last record of the cache
getRegionalStats(d) ==
  IF ~d.dataLoaded \/ Len(d.cachedData) = 0
  THEN [found |-> FALSE, stats |-> ZeroRow]
  ELSE [found |-> TRUE, stats |-> d.cachedData[Len(d.cachedData)]]

\* the sum over all nine classes
Total(stats) ==
  stats.water + stats.trees + stats.grass + stats.floodedVegetation + stats.crops
    + stats.shrubAndScrub + stats.built + stats.bare + stats.snowAndIce

\* (area / total) * 100
Pct(area, total) == (area * 10000) \div total

\* the loop that finds the dominant class among the first n classes:
\* strict >, starting from 'Trees' and 0
RECURSIVE Dominant(_, _, _, _, _)
Dominant(stats, total, n, k, best) ==
  IF k > n THEN best
  ELSE LET pct == Pct(ClassArea(stats, DW_CLASSES[k]), total)
       IN IF pct > best.max
          THEN Dominant(stats, total, n, k + 1, [cls |-> DW_CLASSES[k], max |-> pct])
          ELSE Dominant(stats, total, n, k + 1, best)

\* the percentages of the regional summary (Snow and Ice is not among them)
RegionalSummary(stats) ==
  LET total == Total(stats)
  IN [present |-> TRUE,
      dominantClass |-> Dominant(stats, total, 8, 1, [cls |-> "Trees", max |-> 0]).cls,
      trees |-> Pct(stats.trees, total), crops |-> Pct(stats.crops, total),
      built |-> Pct(stats.built, total), water |-> Pct(stats.water, total),
      shrubAndScrub |-> Pct(stats.shrubAndScrub, total),
      grass |-> Pct(stats.grass, total), bare |-> Pct(stats.bare, total),
      year |-> stats.year]

\* getLandCoverData once loadCachedData has returned; the legacy block
\* carries the numbers of the summary itself, with source 'estimated'
getLandCoverData(d) ==
  LET latestStats == getRegionalStats(d)
  IN IF latestStats.found /\ Total(latestStats.stats) > 0
     THEN IF version = "current"
          THEN Fulfilled([present |-> TRUE,
                          regionalSummary |-> RegionalSummary(latestStats.stats),
                          pointDataAvailable |-> FALSE,
                          source |-> "dynamicworld_regional"])
          ELSE Fulfilled([present |-> TRUE,
                          regionalSummary |-> RegionalSummary(latestStats.stats),
                          pointDataAvailable |-> UNDEFINED,
                          source |-> "estimated"])
     ELSE IF version = "current"
          THEN Fulfilled([present |-> TRUE,
                          regionalSummary |-> NoBlock,
                          pointDataAvailable |-> FALSE,
                          source |-> "unavailable"])
          ELSE Fulfilled(NoBlock)

\* the older fetchPointData: a class and probabilities made from the
\* regional statistics (area / total; NaN when the total is 0)
SynthesizedPointData(stats) ==
  LET total == Total(stats)
  IN IF total = 0
     THEN [present |-> TRUE, landCoverClass |-> "Trees", confidence |-> 0,
           probabilities |-> [k \in 1..9 |-> "NaN"]]
     ELSE [present |-> TRUE,
           landCoverClass |-> Dominant(stats, total, 9, 1, [cls |-> "Trees", max |-> 0]).cls,
           confidence |-> Dominant(stats, total, 9, 1, [cls |-> "Trees", max |-> 0]).max,
           probabilities |-> [k \in 1..9 |-> Pct(ClassArea(stats, DW_CLASSES[k]), total)]]

\* no call of fetchPointData has returned yet
NotAsked == [asked |-> FALSE]

\* fetchPointData(lat, lon): null in the current service
fetchPointData(p) ==
  IF version = "current" THEN NoBlock
  ELSE IF ~navOnline THEN NoBlock
  ELSE IF ~getRegionalStats(dw).found THEN NoBlock
  ELSE SynthesizedPointData(getRegionalStats(dw).stats)

(***************************************************************************)
(* DatasetManager.  The manifest lists two layers here: the Western Ghats  *)
(* boundary (GeoJSON, two fields) and one tabular layer.                   *)
(***************************************************************************)
Layer(id, format, hasFields, fields) ==
  [id |-> id, format |-> format, hasFields |-> hasFields, fields |-> fields]

MANIFEST ==
  << Layer("western_ghats_boundary", "geojson", TRUE,
           << "REC_NUM", "DATA_VALUE" >>),
     Layer("tree_cover_glc", "csv", TRUE,
           << "year", "tree_cover_km2", "tree_cover_pct" >>) >>

LayerIds == {MANIFEST[k].id : k \in 1..Len(MANIFEST)}

\* /data/lulc/dakshina_kannada_tree_cover_glc.csv, parsed
TREE_COVER ==
  << [year |-> 2000, tree_cover_pct |-> 52],
     [year |-> 2010, tree_cover_pct |-> 47],
     [year |-> 2010, tree_cover_pct |-> 48] >>

\* the parsed file behind a layer
LayerFile(id) == IF id = "western_ghats_boundary" THEN WG_FILE ELSE TREE_COVER

getLayerById(id) == MANIFEST[CHOOSE k \in 1..Len(MANIFEST) : MANIFEST[k].id = id]

\* a scan that goes on after a match: the last polygon that contains p
RECURSIVE ScanFeatures_LastWins(_, _, _)
ScanFeatures_LastWins(features, p, k) ==
  IF k > Len(features) THEN [threw |-> FALSE, idx |-> 0]
  ELSE LET rest == ScanFeatures_LastWins(features, p, k + 1)
       IN IF rest.idx # 0 THEN rest
          ELSE IF /\ IsPolygon(features[k])
                  /\ ~features[k].bad
                  /\ booleanPointInPolygon(p, features[k])
          THEN [threw |-> FALSE, idx |-> k]
          ELSE rest

\* the scan of a GeoJSON layer: the first polygon that contains p (0 if
\* none), or threw when turf throws on a polygon before that
RECURSIVE ScanFeatures(_, _, _)
ScanFeatures(features, p, k) ==
  IF k > Len(features) THEN [threw |-> FALSE, idx |-> 0]
  ELSE IF ~IsPolygon(features[k]) THEN ScanFeatures(features, p, k + 1)
  ELSE IF features[k].bad THEN [threw |-> TRUE, idx |-> 0]
  ELSE IF booleanPointInPolygon(p, features[k]) THEN [threw |-> FALSE, idx |-> k]
  ELSE ScanFeatures(features, p, k + 1)

\* values[layerId] for a GeoJSON layer whose scan found feature idx
FeatureValues(layer, features, idx) ==
  IF idx = 0 THEN NoProps
  ELSE IF layer.hasFields
  THEN [f \in {layer.fields[j] : j \in 1..Len(layer.fields)} |->
          Get(features[idx].properties, f)]
  ELSE features[idx].properties

Max(S) == CHOOSE x \in S : \A y \in S : y <= x

\* the first n elements of a sequence
Take(seq, n) == SubSeq(seq, 1, IF Len(seq) < n THEN Len(seq) ELSE n)

\* a summary over the whole table, whatever the years
CsvValues_NoGrouping(records) ==
  IF Len(records) = 0 THEN NoProps
  ELSE [_source |-> "csv_summary", _year |-> 2020,
        _recordCount |-> Len(records), _sample |-> Take(records, 3)]

\* values[layerId] for a tabular layer: the records of the latest year;
\* all records when none has a year; {} for an empty table
CsvValues(records) ==
  LET dated == {k \in 1..Len(records) : "year" \in DOMAIN records[k]}
      years == {records[k].year : k \in dated}
      latestYear == Max(years)
      latestRecords ==
        SelectSeq(records, LAMBDA r : "year" \in DOMAIN r /\ r.year = latestYear)
  IN IF Len(records) = 0 THEN NoProps
     ELSE IF years # {}
     THEN [_source |-> "csv_summary", _year |-> latestYear,
           _recordCount |-> Len(latestRecords), _sample |-> Take(latestRecords, 3)]
     ELSE [_source |-> "csv_summary",
           _recordCount |-> Len(records), _sample |-> Take(records, 3)]

\* the layer of a catalog with the given id
LayerOf(catalog, id) == catalog[CHOOSE k \in 1..Len(catalog) : catalog[k].id = id]

\* a layer is looked at whether or not its data was loaded
HasData_Always(data, id) == id \in DOMAIN data

\* this.loadedData.get(layerId) is there
HasData(data, id) == id \in DOMAIN data /\ data[id].loaded

\* getValuesAtPoint(lat, lon, activeLayerIds) of a DatasetManager with the
\* given manifest layers and loaded data (id -> loaded, data)
ValuesAtPoint(catalog, data, p, ids) ==
  LET known == {catalog[k].id : k \in 1..Len(catalog)}
      active == {id \in ids : id \in known /\ HasData(data, id)}
      scan(id) == ScanFeatures(data[id].data, p, 1)
      geo == {id \in active : LayerOf(catalog, id).format = "geojson"}
      csv == {id \in active : LayerOf(catalog, id).format = "csv"}
  IN IF \E id \in geo : scan(id).threw
     THEN Rejected
     ELSE Fulfilled([present |-> TRUE,
                     values |-> [id \in active |->
                        IF id \in geo
                        THEN FeatureValues(LayerOf(catalog, id), data[id].data, scan(id).idx)
                        ELSE IF id \in csv THEN CsvValues(data[id].data)
                        ELSE NoProps]])

\* getValuesAtPoint of the DatasetManager that LocationDataService owns
getValuesAtPoint(p, ids) ==
  ValuesAtPoint(MANIFEST,
                [id \in LayerIds |-> [loaded |-> id \in loadedData, data |-> LayerFile(id)]],
                p, ids)

\* getLocalData: every layer of the manifest
getLocalData(p) == getValuesAtPoint(p, LayerIds)

(***************************************************************************)
(* A DatasetManager queried on its own (the dataset hook builds one and    *)
(* calls getValuesAtPoint with the layers the user has switched on).       *)
(***************************************************************************)
\* the layers of the manifest in this part: two boundaries of the default
\* manifest, a vector layer of a custom manifest that has no query spec,
\* and a tabular layer
CATALOG ==
  << Layer("western_ghats_boundary", "geojson", TRUE, << "REC_NUM", "DATA_VALUE" >>),
     Layer("dakshina_kannada_boundary", "geojson", TRUE, << >>),
     Layer("custom_overlay", "geojson", FALSE, << >>),
     Layer("tree_cover_glc", "csv", TRUE,
           << "year", "tree_cover_km2", "tree_cover_pct" >>) >>

CatalogIds == {CATALOG[k].id : k \in 1..Len(CATALOG)}

\* the ids a caller may pass: those of the catalog and one that is not listed
RequestIds == CatalogIds \cup {"unlisted"}

F_OUTER ==
  Feature("Polygon", WGRect, FALSE,
          ("REC_NUM" :> "1") @@ ("DATA_VALUE" :> "WG") @@ ("NAME" :> "outer"))
F_INNER ==
  Feature("MultiPolygon", DKRect, FALSE, ("REC_NUM" :> "2") @@ ("NAME" :> "inner"))
F_LINE == Feature("LineString", WGRect, FALSE, ("REC_NUM" :> "9"))
F_BAD == Feature("Polygon", WGRect, TRUE, NoProps)

\* the feature lists the GeoJSON file of a layer may hold
GeoFiles(id) ==
  CASE id = "western_ghats_boundary" -> { << F_OUTER, F_INNER >>, << F_INNER, F_BAD >> }
    [] id = "dakshina_kannada_boundary" ->
         { << F_INNER, F_OUTER >>, << F_LINE, F_INNER, F_OUTER >> }
    [] OTHER -> { << F_INNER, F_OUTER >>, << >> }

\* a parsed row of a table, with or without a year
Row(year, pct) == [year |-> year, tree_cover_pct |-> pct]
Undated(pct) == [tree_cover_pct |-> pct]

\* the records a CSV file may hold
Tables ==
  { << >>,
    << Row(2018, 1), Row(2020, 2), Row(2018, 3), Row(2020, 4), Row(2020, 5),
       Row(2020, 6) >>,
    << Undated(1), Undated(2), Undated(3), Undated(4) >>,
    << Undated(1), Row(2018, 2) >> }

\* what loadLayer may return for a layer
FilesOf(id) == IF LayerOf(CATALOG, id).format = "csv" THEN Tables ELSE GeoFiles(id)

NoData == [loaded |-> FALSE, data |-> << >>]

NoQuery == [asked |-> FALSE]

\* initialize() / preloadLayers: every layer either loads or is left out
InitializeDataset ==
  /\ \A id \in CatalogIds : ~layerData[id].loaded
  /\ \E S \in SUBSET CatalogIds :
       \E files \in [CatalogIds -> UNION {FilesOf(id) : id \in CatalogIds}] :
         /\ \A id \in CatalogIds : files[id] \in FilesOf(id)
         /\ layerData' = [id \in CatalogIds |->
                            IF id \in S THEN [loaded |-> TRUE, data |-> files[id]]
                            ELSE NoData]
  /\ query' = NoQuery
  /\ UNCHANGED <<adapterVars, syncVars, weatherVars, prev, lc, tracing, cs, loadVars, version, initialized,
                 boundaries, blocksLoaded, loadedData, dw, call, pointData>>

\* a caller awaits getValuesAtPoint(lat, lon, activeLayerIds)
GetValuesAtPoint ==
  /\ \E p \in Points, ids \in SUBSET RequestIds :
       query' = [asked |-> TRUE, point |-> p, ids |-> ids,
                 result |-> ValuesAtPoint(CATALOG, layerData, p, ids)]
  /\ UNCHANGED <<adapterVars, syncVars, weatherVars, prev, lc, tracing, cs, loadVars, version, initialized,
                 boundaries, blocksLoaded, loadedData, dw, call, pointData, layerData>>

NextDataset ==
  \/ InitializeDataset
  \/ GetValuesAtPoint

(***************************************************************************)
(* Watershed and weather.                                                  *)
(***************************************************************************)
\* what GET /get_mwsid_by_latlon/ may answer
MwsResponses ==
  { [ok |-> TRUE, mws_id |-> "mws_12"],
    [ok |-> TRUE, mws_id |-> UNDEFINED],
    [ok |-> FALSE, mws_id |-> UNDEFINED] }

\* what GET /get_mws_kyl_indicators/ may answer
KylResponses ==
  { [ok |-> TRUE, indicators |-> {"drought_score"}],
    [ok |-> FALSE, indicators |-> {}] }

WatershedBlock(mwsId, indicators) ==
  [present |-> TRUE, mwsId |-> mwsId, indicators |-> indicators,
   source |-> IF version = "current" THEN "corestack_api" ELSE "corestack"]

\* a watershed block made up locally, with no answer of the remote lookup
NoWatershed_LocalSubstitute ==
  [status |-> "fulfilled",
   value |-> [present |-> TRUE, mwsId |-> "local", indicators |-> {},
              source |-> "corestack_local"]]

\* getWatershedData when there is no remote answer with an id: return null
NoWatershed == [status |-> "fulfilled", value |-> [present |-> FALSE]]

\* WeatherData, from the response or from the cache
WeatherBlock == [present |-> TRUE, source |-> "open-meteo"]

(***************************************************************************)
(* enrichLocation.  One activation at a time is followed, from the call to *)
(* the returned LocationEnrichment, which stays in call.result until the   *)
(* next call.  call.log is history: what the remote services answered in   *)
(* this activation.                                                        *)
(***************************************************************************)
NoResult == [present |-> FALSE]

IdleCall ==
  [pc |-> "idle", point |-> P_WGBOX, isOnline |-> FALSE,
   localData |-> Pending, admin |-> Pending, landCover |-> Pending,
   watershed |-> Pending, weather |-> Pending,
   mws |-> UNDEFINED, log |-> {}, requests |-> << >>, order |-> << >>,
   timestamp |-> 0, result |-> NoResult]

Branches == <<"localData", "admin", "landCover", "watershed", "weather">>

\* the prefix of result.errors each branch contributes
ErrorPrefix(b) ==
  CASE b = "localData" -> "Local data"
    [] b = "admin" -> "Admin data"
    [] b = "landCover" -> "Land cover"
    [] b = "watershed" -> "Watershed"

\* the block a settled branch leaves in the result: its value when it is
\* fulfilled with a truthy value
BlockOf(settled) ==
  IF settled.status = "fulfilled" /\ settled.value.present THEN settled.value
  ELSE NoBlock

\* result.errors: one entry per rejected branch, weather excepted
RECURSIVE ErrorsFrom(_, _)
ErrorsFrom(c, k) ==
  IF k > 4 THEN << >>
  ELSE (IF c[Branches[k]].status = "rejected"
        THEN << ErrorPrefix(Branches[k]) >> ELSE << >>)
       \o ErrorsFrom(c, k + 1)

\* how the activation ends if it ends on the first rejected branch
Assemble_FailFast(c) ==
  IF \E k \in 1..5 : c[Branches[k]].status = "rejected"
  THEN [IdleCall EXCEPT !.pc = "threw", !.point = c.point,
                        !.isOnline = c.isOnline, !.log = c.log]
  ELSE [IdleCall EXCEPT !.pc = "done", !.point = c.point,
                        !.isOnline = c.isOnline, !.log = c.log,
                   !.requests = c.requests, !.order = c.order,
                        !.result = [present |-> TRUE, isOnline |-> c.isOnline,
                               timestamp |-> c.timestamp,
                                    localData |-> BlockOf(c.localData),
                                    admin |-> BlockOf(c.admin),
                                    landCover |-> BlockOf(c.landCover),
                                    watershed |-> BlockOf(c.watershed),
                                    weather |-> BlockOf(c.weather),
                                    errors |-> << >>]]

\* a variant of the assembly: the call ends with the first rejection, and
\* the blocks of the branches that settle after it are not in the result
Assemble_DropsAfterRejection(c) ==
  LET pos(b) == CHOOSE k \in 1..Len(c.order) : c.order[k] = b
      early(b) == \A r \in 1..4 : c[Branches[r]].status = "rejected" =>
                                    pos(b) <= pos(Branches[r])
      block(b) == IF early(b) THEN BlockOf(c[b]) ELSE NoBlock
  IN [IdleCall EXCEPT !.pc = "done", !.point = c.point,
                      !.isOnline = c.isOnline, !.log = c.log,
                      !.requests = c.requests, !.order = c.order,
                      !.result = [present |-> TRUE, isOnline |-> c.isOnline,
                                  timestamp |-> c.timestamp,
                                  localData |-> block("localData"),
                                  admin |-> block("admin"),
                                  landCover |-> block("landCover"),
                                  watershed |-> block("watershed"),
                                  weather |-> block("weather"),
                                  errors |-> ErrorsFrom(c, 1)]]

\* a variant of the assembly: the weather block carries the time of the
\* call that returns it, not the time its payload was fetched
Assemble_WeatherStampedPerCall(c) ==
  [IdleCall EXCEPT !.pc = "done", !.point = c.point,
                   !.isOnline = c.isOnline, !.log = c.log,
                   !.requests = c.requests, !.order = c.order,
                   !.result = [present |-> TRUE, isOnline |-> c.isOnline,
                               timestamp |-> c.timestamp,
                               localData |-> BlockOf(c.localData),
                               admin |-> BlockOf(c.admin),
                               landCover |-> BlockOf(c.landCover),
                               watershed |-> BlockOf(c.watershed),
                               weather |-> IF BlockOf(c.weather).present
                                           THEN [present |-> TRUE, fetchedAt |-> c.timestamp]
                                           ELSE BlockOf(c.weather),
                               errors |-> ErrorsFrom(c, 1)]]

\* the code after await Promise.allSettled: the result is assembled
Assemble(c) ==
  [IdleCall EXCEPT !.pc = "done", !.point = c.point,
                   !.isOnline = c.isOnline, !.log = c.log,
                   !.requests = c.requests, !.order = c.order,
                   !.result = [present |-> TRUE, isOnline |-> c.isOnline,
                               timestamp |-> c.timestamp,
                               localData |-> BlockOf(c.localData),
                               admin |-> BlockOf(c.admin),
                               landCover |-> BlockOf(c.landCover),
                               watershed |-> BlockOf(c.watershed),
                               weather |-> BlockOf(c.weather),
                               errors |-> ErrorsFrom(c, 1)]]

\* the branches that have settled since call.order was last written, in
\* the order of the array given to Promise.allSettled
NewlySettled(c) ==
  SelectSeq(Branches, LAMBDA b : /\ c[b].status # "pending"
                                 /\ \A k \in 1..Len(c.order) : c.order[k] # b)

\* Promise.allSettled: the activation goes on once all five have settled
AllSettled(c) ==
  LET c1 == IF tracing THEN [c EXCEPT !.order = @ \o NewlySettled(c)] ELSE c
  IN IF \A k \in 1..5 : c1[Branches[k]].status # "pending" THEN Assemble(c1) ELSE c1

\* a variant of a remote request: when sent, it is sent a second time
Requested_Twice(reqs, endpoint) == reqs \o << endpoint, endpoint >>

\* a request to a remote endpoint is sent: call.requests lists them
Requested(reqs, endpoint) == Append(reqs, endpoint)

\* the five branches up to their first network or file request, with the
\* DynamicWorldService state d; hit: WeatherService.cache holds an entry for
\* the point that has not expired (the cache and the clock are not followed
\* here: a call may or may not find such an entry); now: the time the
\* result is stamped with
StartBranches(c, d, hit, now) ==
  LET p == c.point
      remote == c.isOnline /\ hasApiKey
  IN AllSettled(
       [c EXCEPT
          !.pc = "branches",
          !.timestamp = now,
          !.localData = getLocalData(p),
          !.admin = IF remote /\ navOnline THEN Pending ELSE LocalAdmin(p),
          !.landCover = IF d.dataLoaded THEN getLandCoverData(d) ELSE Pending,
          !.watershed = IF remote /\ navOnline THEN Pending ELSE NoWatershed,
          !.weather = IF ~c.isOnline \/ ~navOnline THEN Fulfilled(NoBlock)
                      ELSE IF hit THEN Fulfilled(WeatherBlock)
                      ELSE Pending,
          !.log = IF c.isOnline /\ navOnline /\ hit THEN {"wx_hit"} ELSE {},
          !.requests =
            LET r1 == IF remote /\ navOnline THEN Requested(<< >>, "admin") ELSE << >>
                r2 == IF remote /\ navOnline THEN Requested(r1, "mws") ELSE r1
            IN IF c.isOnline /\ navOnline /\ ~hit THEN Requested(r2, "weather") ELSE r2])

\* enrichLocation(lat, lon, isOnline), to the first await that waits
EnrichLocation ==
  /\ call.pc \in {"idle", "done"}
  /\ \E p \in Points, online \in BOOLEAN, hit \in BOOLEAN :
       LET c == [IdleCall EXCEPT !.point = p, !.isOnline = online]
       IN call' = IF initialized THEN StartBranches(c, dw, hit, clock)
                  ELSE [c EXCEPT !.pc = "init_layers"]
  /\ UNCHANGED <<adapterVars, syncVars, pointData, auxVars, version, initialized, boundaries,
                 blocksLoaded, loadedData, dw>>

\* the files, caches and adapter state a call of enrichLocation reads
Backing == <<boundaries, blocksLoaded, loadedData, dw, navOnline, apiKey>>

NoPrev == [present |-> FALSE]

\* the caller repeats the call that has just returned, with the same
\* arguments, at once or some time later; prev keeps the first call, what
\* the remote services answered to it, and the backing state between the
\* two calls
EnrichLocationAgain ==
  /\ call.pc = "done"
  /\ initialized
  /\ ~prev.present
  /\ prev' = [present |-> TRUE, point |-> call.point, isOnline |-> call.isOnline,
              log |-> call.log, backing |-> Backing, result |-> call.result]
  /\ clock < MaxTime
  /\ clock' \in {clock, clock + 1}
  /\ \E hit \in BOOLEAN :
       call' = StartBranches([IdleCall EXCEPT !.point = call.point,
                                             !.isOnline = call.isOnline],
                             dw, hit, clock')
  /\ UNCHANGED <<adapterVars, syncVars, pointData, weatherCache, wx, wxCount,
                 datasetVars, cs, loadVars, lc, tracing, version,
                 initialized, boundaries, blocksLoaded,
                 loadedData, dw>>

\* how a fetch of a static file may end
LoadOutcomes == {"ok", "not_ok", "throws"}

\* datasetManager.initialize(): the manifest, then every enabled layer;
\* a layer that fails to load is left out
InitializeLayers ==
  /\ call.pc = "init_layers"
  /\ \E S \in SUBSET LayerIds : loadedData' = loadedData \cup S
  /\ call' = [call EXCEPT !.pc = IF version = "current" THEN "init_dk" ELSE "init_dw"]
  /\ UNCHANGED <<adapterVars, syncVars, pointData, auxVars, version, initialized, boundaries,
                 blocksLoaded, dw>>

\* loadBoundaries: one pass of its loop, for boundary id
LoadBoundary(id, pc, next) ==
  /\ call.pc = pc
  /\ \E outcome \in LoadOutcomes, geojson \in BoundaryFiles(id) :
       boundaries' = IF outcome = "ok"
                     THEN [boundaries EXCEPT ![id] = Loaded(geojson)]
                     ELSE boundaries
  /\ call' = [call EXCEPT !.pc = next]
  /\ UNCHANGED <<adapterVars, syncVars, pointData, auxVars, version, initialized, blocksLoaded,
                 loadedData, dw>>

LoadBoundaries ==
  \/ LoadBoundary("dakshina_kannada", "init_dk", "init_wg")
  \/ LoadBoundary("western_ghats", "init_wg", "init_blocks")

LoadLocalCoreStackData ==
  /\ call.pc = "init_blocks"
  /\ \E outcome \in LoadOutcomes :
       blocksLoaded' = (blocksLoaded \/ outcome = "ok")
  /\ call' = [call EXCEPT !.pc = "init_dw"]
  /\ UNCHANGED <<adapterVars, syncVars, pointData, auxVars, version, initialized, boundaries,
                 loadedData, dw>>

\* loadCachedData after its fetch: the cache is filled only by a good answer
LoadedCache(outcome, data) ==
  IF outcome = "ok" THEN [dataLoaded |-> TRUE, cachedData |-> data] ELSE dw

\* the last step of initialize(): dynamicWorldService.loadCachedData(), then
\* initialized = true and the five branches start
InitializeDynamicWorld ==
  /\ call.pc = "init_dw"
  /\ \E outcome \in LoadOutcomes, data \in DWFiles, hit \in BOOLEAN :
       /\ dw' = IF dw.dataLoaded THEN dw ELSE LoadedCache(outcome, data)
       /\ call' = StartBranches(call, dw', hit, clock)
  /\ initialized' = TRUE
  /\ UNCHANGED <<adapterVars, syncVars, pointData, auxVars, version, boundaries, blocksLoaded,
                 loadedData>>

\* getLandCoverData: its own loadCachedData answers
LandCoverLoads ==
  /\ call.pc = "branches"
  /\ call.landCover.status = "pending"
  /\ \E outcome \in LoadOutcomes, data \in DWFiles :
       /\ dw' = IF dw.dataLoaded THEN dw ELSE LoadedCache(outcome, data)
       /\ call' = AllSettled([call EXCEPT !.landCover = getLandCoverData(dw')])
  /\ UNCHANGED <<adapterVars, syncVars, pointData, auxVars, version, initialized, boundaries,
                 blocksLoaded, loadedData>>

(***************************************************************************)
(* Several calls of enrichLocation and the static files they load.  Only   *)
(* the awaits that fetch a boundary file or the land-cover cache are       *)
(* followed: initialize() with its four stages, then the loadCachedData of *)
(* getLandCoverData.  A fetch is issued by the step that reaches its       *)
(* await and answered by the next step of the activation.                  *)
(***************************************************************************)
LoadSources == {"dakshina_kannada", "western_ghats", "dynamicworld"}

NoLoads == [count |-> [f \in LoadSources |-> 0], failed |-> {}, refetched |-> {}]

\* fetch(path) is issued for the file; inQuery: by a branch of a query,
\* after initialize() has returned
Fetch(l, file, inQuery) ==
  [l EXCEPT !.count[file] = @ + 1,
            !.refetched = IF inQuery /\ file \in l.failed THEN @ \cup {file} ELSE @]

\* the fetch of the file has answered
Fetched(l, file, outcome) ==
  IF outcome = "ok" THEN l ELSE [l EXCEPT !.failed = @ \cup {file}]

\* loadCachedData: if (this.dataLoaded) return
CacheInMemory(d) == d.dataLoaded

\* the activation has left initialize(): getLandCoverData calls
\* loadCachedData, which fetches unless the cache is in memory
QueryLandCover(i, d, l) ==
  IF CacheInMemory(d)
  THEN /\ ini' = [ini EXCEPT ![i] = "done"]
       /\ loads' = l
  ELSE /\ ini' = [ini EXCEPT ![i] = "query_dw"]
       /\ loads' = Fetch(l, "dynamicworld", TRUE)

\* enrichLocation: await this.initialize(), to its first await
EnrichLocationStarts(i) ==
  /\ ini[i] = "idle"
  /\ \A j \in 1..MaxEnrich : j < i => ini[j] # "idle"
  /\ IF initialized
     THEN QueryLandCover(i, dw, loads)
     ELSE /\ ini' = [ini EXCEPT ![i] = "layers"]
          /\ UNCHANGED loads
  /\ UNCHANGED <<adapterVars, syncVars, weatherVars, datasetVars, prev, lc, tracing, cs,
                 version, initialized, boundaries, blocksLoaded, loadedData, dw,
                 call, pointData>>

\* datasetManager.initialize() has returned; loadBoundaries fetches the
\* first file
LayersInitialized(i) ==
  /\ ini[i] = "layers"
  /\ ini' = [ini EXCEPT ![i] = "dk"]
  /\ loads' = Fetch(loads, "dakshina_kannada", FALSE)
  /\ UNCHANGED <<adapterVars, syncVars, weatherVars, datasetVars, prev, lc, tracing, cs,
                 version, initialized, boundaries, blocksLoaded, loadedData, dw,
                 call, pointData>>

\* loadBoundaries: the fetch of a boundary file answers and the next fetch
\* is issued
BoundaryFetched(i) ==
  /\ ini[i] \in {"dk", "wg"}
  /\ \E outcome \in LoadOutcomes :
       LET id == IF ini[i] = "dk" THEN "dakshina_kannada" ELSE "western_ghats"
           file == IF ini[i] = "dk" THEN DK_NAMED ELSE WG_FILE
           l == Fetched(loads, id, outcome)
       IN /\ boundaries' = IF outcome = "ok"
                           THEN [boundaries EXCEPT ![id] = Loaded(file)]
                           ELSE boundaries
          /\ loads' = IF ini[i] = "dk" THEN Fetch(l, "western_ghats", FALSE) ELSE l
  /\ ini' = [ini EXCEPT ![i] = IF ini[i] = "dk" THEN "wg" ELSE "blocks"]
  /\ UNCHANGED <<adapterVars, syncVars, weatherVars, datasetVars, prev, lc, tracing, cs,
                 version, initialized, blocksLoaded, loadedData, dw, call,
                 pointData>>

\* loadLocalCoreStackData answers; then dynamicWorldService.loadCachedData()
\* of initialize(), which returns at once when the cache is in memory
BlocksFetched(i) ==
  /\ ini[i] = "blocks"
  /\ \E outcome \in LoadOutcomes : blocksLoaded' = (blocksLoaded \/ outcome = "ok")
  /\ IF CacheInMemory(dw)
     THEN /\ initialized' = TRUE
          /\ QueryLandCover(i, dw, loads)
     ELSE /\ ini' = [ini EXCEPT ![i] = "dw"]
          /\ loads' = Fetch(loads, "dynamicworld", FALSE)
          /\ UNCHANGED initialized
  /\ UNCHANGED <<adapterVars, syncVars, weatherVars, datasetVars, prev, lc, tracing, cs,
                 version, boundaries, loadedData, dw, call, pointData>>

\* the fetch of the land-cover cache answers: in initialize(), which then
\* sets initialized and lets the query start, or in the query
CacheFetched(i) ==
  /\ ini[i] \in {"dw", "query_dw"}
  /\ \E outcome \in LoadOutcomes :
       LET l == Fetched(loads, "dynamicworld", outcome)
       IN /\ dw' = LoadedCache(outcome, DW_NORMAL)
          /\ IF ini[i] = "dw"
             THEN /\ initialized' = TRUE
                  /\ QueryLandCover(i, dw', l)
             ELSE /\ ini' = [ini EXCEPT ![i] = "done"]
                  /\ loads' = l
                  /\ UNCHANGED initialized
  /\ UNCHANGED <<adapterVars, syncVars, weatherVars, datasetVars, prev, lc, tracing, cs,
                 version, boundaries, blocksLoaded, loadedData, call, pointData>>

NextLoads ==
  \/ \E i \in 1..MaxEnrich : EnrichLocationStarts(i)
  \/ \E i \in 1..MaxEnrich : LayersInitialized(i)
  \/ \E i \in 1..MaxEnrich : BoundaryFetched(i)
  \/ \E i \in 1..MaxEnrich : BlocksFetched(i)
  \/ \E i \in 1..MaxEnrich : CacheFetched(i)

(***************************************************************************)
(* The land-cover branch on a loaded cache: getRegionalStats() and          *)
(* getLandCoverData for the regional records a cache file may hold, in any *)
(* order of its lines.                                                     *)
(***************************************************************************)
\* the areas a class may have in a record
Areas == 0..MaxArea
\* the years a record may be of
Years == {2024, 2025}

\* regional records: water, trees and snow-and-ice vary, a little bare
\* ground may be there
LCRows ==
  {DWRow(y, w, t, 0, 0, 0, 0, 0, b, s) :
     y \in Years, w \in Areas, t \in Areas, b \in {0, 1}, s \in Areas}

\* cache files of one or two records
LCFiles == {<< r >> : r \in LCRows} \cup {<< r1, r2 >> : r1 \in LCRows, r2 \in LCRows}

\* getLandCoverData on the loaded cache: what getRegionalStats() returns to
\* it, and the block it builds
GetLandCoverData ==
  /\ dw.dataLoaded
  /\ ~lc.asked
  /\ lc' = [asked |-> TRUE, stats |-> getRegionalStats(dw),
            landCover |-> getLandCoverData(dw)]
  /\ UNCHANGED <<adapterVars, syncVars, weatherVars, datasetVars, prev, cs,
                 loadVars, tracing, version, initialized, boundaries,
                 blocksLoaded, loadedData, dw, call, pointData>>

\* the label call.log keeps of an answer of the administrative API
AdminLabel(resp) ==
  IF ~resp.ok THEN "admin_500"
  ELSE IF Truthy(resp.state_name) \/ Truthy(resp.district_name) THEN "admin_ok"
  ELSE "admin_empty"

\* getAdminData: coreStackService.getAdminDetailsByLatLon answers
AdminResponds ==
  /\ call.pc = "branches"
  /\ call.admin.status = "pending"
  /\ \E resp \in AdminResponses :
       call' = AllSettled([call EXCEPT !.admin = RemoteAdmin(call.point, resp),
                                       !.log = @ \cup {AdminLabel(resp)}])
  /\ UNCHANGED <<adapterVars, syncVars, pointData, auxVars, version, initialized, boundaries,
                 blocksLoaded, loadedData, dw>>

\* getWatershedData: getMWSIdByLatLon answers; with an id the indicators
\* are requested, and that request fails at once when the service is
\* offline or has no key (.catch(() => []))
MwsResponds ==
  /\ call.pc = "branches"
  /\ call.watershed.status = "pending"
  /\ call.mws = UNDEFINED
  /\ \E resp \in MwsResponses :
       call' =
         IF resp.ok /\ Truthy(resp.mws_id)
         THEN IF isAvailable
              THEN [call EXCEPT !.mws = resp.mws_id, !.log = @ \cup {"mws_id"},
                                !.requests = Requested(@, "kyl")]
              ELSE AllSettled([call EXCEPT
                     !.watershed = Fulfilled(WatershedBlock(resp.mws_id, {})),
                     !.log = @ \cup {"mws_id"}])
         ELSE AllSettled([call EXCEPT
                !.watershed = NoWatershed,
                !.log = @ \cup {"mws_fail"}])
  /\ UNCHANGED <<adapterVars, syncVars, pointData, auxVars, version, initialized, boundaries,
                 blocksLoaded, loadedData, dw>>

\* getWatershedData: getMWSKYLIndicators answers
KylResponds ==
  /\ call.pc = "branches"
  /\ call.watershed.status = "pending"
  /\ call.mws # UNDEFINED
  /\ \E resp \in KylResponses :
       call' = AllSettled([call EXCEPT
                 !.watershed = Fulfilled(WatershedBlock(call.mws,
                                 IF resp.ok THEN resp.indicators ELSE {})),
                 !.log = @ \cup {IF resp.ok THEN "kyl_ok" ELSE "kyl_err"}])
  /\ UNCHANGED <<adapterVars, syncVars, pointData, auxVars, version, initialized, boundaries,
                 blocksLoaded, loadedData, dw>>

\* weatherService.getWeather: the forecast request answers (a good answer
\* is also put in the cache)
WeatherResponds ==
  /\ call.pc = "branches"
  /\ call.weather.status = "pending"
  /\ \E ok \in BOOLEAN :
       call' = AllSettled([call EXCEPT
                 !.weather = IF ok THEN Fulfilled(WeatherBlock) ELSE Fulfilled(NoBlock),
                 !.log = @ \cup {IF ok THEN "wx_ok" ELSE "wx_err"}])
  /\ UNCHANGED <<adapterVars, syncVars, pointData, auxVars, version, initialized, boundaries,
                 blocksLoaded, loadedData, dw>>

(***************************************************************************)
(* WeatherService.  Time is counted in units of ten minutes; a coordinate  *)
(* is a pair in ten-thousandths of a degree.  An activation of getWeather  *)
(* occupies a slot of wx; the slot keeps what the activation did until it  *)
(* is used again.                                                          *)
(***************************************************************************)
\* cacheDuration = 30 * 60 * 1000 ms
cacheDuration == 3

\* the coordinates getWeather is called with: two that differ in the fourth
\* decimal only, and one further away
WxCoords == { <<129000, 748000>>, <<129004, 748000>>, <<129010, 748000>> }

\* x.toFixed(3), for a positive x in ten-thousandths: thousandths, rounded
toFixed3(x) == (x + 5) \div 10

\* cacheKey = `${lat.toFixed(3)},${lon.toFixed(3)}`
cacheKey(c) == << toFixed3(c[1]), toFixed3(c[2]) >>

WxKeys == {cacheKey(c) : c \in WxCoords}

\* what the forecast API may report
WxReadings == {"rain", "clear"}

NoWeather == [present |-> FALSE]

\* WeatherData built from a response that arrives at time now
WeatherData(reading, now) == [present |-> TRUE, reading |-> reading, fetchedAt |-> now]

NoEntry == [present |-> FALSE, data |-> NoWeather, expiry |-> 0]

\* the cache test of getWeather when the expiry is not looked at
CacheHit_IgnoreExpiry(entry, now) == entry.present

\* cached && cached.expiry > Date.now()
CacheHit(entry, now) == entry.present /\ entry.expiry > now

IdleWx ==
  [pc |-> "idle", coord |-> << 0, 0 >>, seq |-> 0, startedAt |-> 0,
   online |-> FALSE, fetched |-> FALSE, failed |-> FALSE, result |-> NoWeather]

\* the slot a new activation takes: the first that was never used, or else
\* the first whose activation has returned
FreeWx(i) ==
  LET idle == {k \in 1..MaxWx : wx[k].pc = "idle"}
      returned == {k \in 1..MaxWx : wx[k].pc = "returned"}
      free == IF idle # {} THEN idle ELSE returned
  IN i \in free /\ \A k \in free : i <= k

\* getWeather(lat, lon), to its await of fetch or to its return
GetWeather(i) ==
  /\ FreeWx(i)
  /\ wxCount < MaxCalls
  /\ wxCount' = wxCount + 1
  /\ \E c \in WxCoords :
       LET cached == weatherCache[cacheKey(c)]
           started == [IdleWx EXCEPT !.coord = c, !.seq = wxCount + 1,
                                    !.startedAt = clock, !.online = navOnline]
       IN wx' = [wx EXCEPT ![i] =
                   IF ~navOnline THEN [started EXCEPT !.pc = "returned"]
                   ELSE IF CacheHit(cached, clock)
                   THEN [started EXCEPT !.pc = "returned", !.result = cached.data]
                   ELSE [started EXCEPT !.pc = "fetching", !.fetched = TRUE]]
  /\ UNCHANGED <<adapterVars, syncVars, datasetVars, prev, lc, tracing, cs, loadVars, version, initialized,
                 boundaries, blocksLoaded, loadedData, dw, call, pointData, clock, weatherCache>>

\* the forecast request of activation i answers, or fails
WeatherAnswers(i) ==
  /\ wx[i].pc = "fetching"
  /\ \E ok \in BOOLEAN, reading \in WxReadings :
       IF ok
       THEN LET weatherData == WeatherData(reading, clock)
            IN /\ weatherCache' =
                    [weatherCache EXCEPT ![cacheKey(wx[i].coord)] =
                       [present |-> TRUE, data |-> weatherData,
                        expiry |-> clock + cacheDuration]]
               /\ wx' = [wx EXCEPT ![i].pc = "returned", ![i].result = weatherData]
       ELSE /\ wx' = [wx EXCEPT ![i].pc = "returned", ![i].failed = TRUE]
            /\ UNCHANGED weatherCache
  /\ UNCHANGED <<adapterVars, syncVars, datasetVars, prev, lc, tracing, cs, loadVars, version, initialized,
                 boundaries, blocksLoaded, loadedData, dw, call, pointData, clock, wxCount>>

\* ten minutes pass
Tick ==
  /\ clock < MaxTime
  /\ clock' = clock + 1
  /\ UNCHANGED <<adapterVars, syncVars, datasetVars, prev, lc, tracing, cs, loadVars, version, initialized,
                 boundaries, blocksLoaded, loadedData, dw, call, pointData, weatherCache,
                 wx, wxCount>>

InitAdapters ==
  /\ navOnline \in BOOLEAN
  /\ storedKey \in {NULL} \cup UserKeys
  /\ apiKey = ConstructApiKey(storedKey)

InitSync ==
  /\ syncStatus = [lastSync |-> NULL, isSyncing |-> FALSE, errors |-> <<>>]
  /\ observations = [id \in ObsIds |-> "none"]
  /\ autoSync = FALSE
  /\ inv = [i \in Invs |-> IdleInv]
  /\ enrichCount = [id \in ObsIds |-> 0]
  /\ lastEvent = NoEvent

\* the services after construction
InitServices ==
  /\ initialized = FALSE
  /\ boundaries = [id \in BoundaryIds |-> NotLoaded]
  /\ blocksLoaded = FALSE
  /\ loadedData = {}
  /\ dw = [dataLoaded |-> FALSE, cachedData |-> << >>]
  /\ call = IdleCall
  /\ pointData = NotAsked
  /\ clock = 0
  /\ weatherCache = [k \in WxKeys |-> NoEntry]
  /\ wx = [i \in 1..MaxWx |-> IdleWx]
  /\ wxCount = 0
  /\ layerData = [id \in CatalogIds |-> NoData]
  /\ query = NoQuery
  /\ prev = NoPrev
  /\ cs = IdleCs
  /\ ini = [i \in 1..MaxEnrich |-> "idle"]
  /\ loads = NoLoads
  /\ lc = NotAsked
  /\ tracing = FALSE

Init == InitAdapters /\ InitSync /\ InitServices /\ version = "current"

InitLegacy == InitAdapters /\ InitSync /\ InitServices /\ version = "legacy"

NextSync ==
  \/ StartAutoSync
  \/ StopAutoSync
  \/ TimerFires
  \/ GoOnline
  \/ GoOffline
  \/ DirectCall
  \/ AddObservation
  \/ DeleteObservation
  \/ SetApiKey
  \/ \E i \in Invs : ReadPending(i)
  \/ \E i \in Invs : GetObservation(i)
  \/ \E i \in Invs : RemoteReturns(i)
  \/ \E i \in Invs : UpdateObservation(i)
  \/ \E i \in Invs : UpdatePendingCounts(i)

SpecSync == Init /\ [][NextSync]_vars

\* every operation a pass awaits settles: the continuation of each await of
\* enrichPendingObservations and enrichObservation is eventually run
PassProgress ==
  \A i \in Invs : /\ WF_vars(ReadPending(i))
                   /\ WF_vars(GetObservation(i))
                   /\ WF_vars(RemoteReturns(i))
                   /\ WF_vars(UpdateObservation(i))
                   /\ WF_vars(UpdatePendingCounts(i))

SpecSyncFair == Init /\ [][NextSync]_vars /\ PassProgress

\* the network and the key dialog, then the steps of enrichLocation
NextEnrich ==
  \/ GoOnline
  \/ GoOffline
  \/ SetApiKey
  \/ EnrichLocation
  \/ InitializeLayers
  \/ LoadBoundaries
  \/ LoadLocalCoreStackData
  \/ InitializeDynamicWorld
  \/ LandCoverLoads
  \/ AdminResponds
  \/ MwsResponds
  \/ KylResponds
  \/ WeatherResponds

SpecEnrich == Init /\ [][NextEnrich]_vars

\* dynamicWorldService.loadCachedData() called on its own (the dataset
\* hook and the location panel do so)
LoadCachedData ==
  /\ ~dw.dataLoaded
  /\ \E outcome \in LoadOutcomes, data \in DWFiles : dw' = LoadedCache(outcome, data)
  /\ UNCHANGED <<adapterVars, syncVars, pointData, auxVars, version, initialized, boundaries,
                 blocksLoaded, loadedData, call>>

\* a caller awaits dynamicWorldService.fetchPointData(lat, lon)
FetchPointData ==
  /\ \E p \in Points :
       pointData' = [asked |-> TRUE, point |-> p, value |-> fetchPointData(p)]
  /\ UNCHANGED <<adapterVars, syncVars, auxVars, version, initialized,
                 boundaries, blocksLoaded, loadedData, dw, call>>

\* either copy of DynamicWorldService may be the one that is built
InitPointData ==
  InitAdapters /\ InitSync /\ InitServices /\ version \in {"current", "legacy"}

\* the land-cover adapter on its own: the network, the cache, point queries
NextPointData ==
  \/ GoOnline
  \/ GoOffline
  \/ LoadCachedData
  \/ FetchPointData

SpecPointData == InitPointData /\ [][NextPointData]_vars

\* the weather adapter on its own: the network, the clock, getWeather
NextWeather ==
  \/ GoOnline
  \/ GoOffline
  \/ Tick
  \/ \E i \in 1..MaxWx : GetWeather(i)
  \/ \E i \in 1..MaxWx : WeatherAnswers(i)

SpecWeather == Init /\ [][NextWeather]_vars

SpecDataset == Init /\ [][NextDataset]_vars

\* the services after a first call has initialized them: both boundaries
\* and the layers are loaded, the blocks CSV and the land-cover cache may
\* have failed to load
InitLoaded ==
  /\ InitAdapters /\ InitSync /\ version = "current"
  /\ initialized = TRUE
  /\ \E dk \in DKFiles :
       boundaries = [id \in BoundaryIds |->
                       IF id = "dakshina_kannada" THEN Loaded(dk) ELSE Loaded(WG_FILE)]
  /\ blocksLoaded \in BOOLEAN
  /\ loadedData = LayerIds
  /\ dw \in {[dataLoaded |-> FALSE, cachedData |-> << >>],
              [dataLoaded |-> TRUE, cachedData |-> DW_NORMAL]}
  /\ call = IdleCall
  /\ pointData = NotAsked
  /\ clock = 0
  /\ weatherCache = [k \in WxKeys |-> NoEntry]
  /\ wx = [i \in 1..MaxWx |-> IdleWx]
  /\ wxCount = 0
  /\ layerData = [id \in CatalogIds |-> NoData]
  /\ query = NoQuery
  /\ prev = NoPrev
  /\ cs = IdleCs
  /\ ini = [i \in 1..MaxEnrich |-> "idle"]
  /\ loads = NoLoads
  /\ lc = NotAsked
  /\ tracing = FALSE

\* a caller that calls enrichLocation and then repeats its last call, while
\* the connectivity stays what it was
NextRepeat ==
  \/ (~prev.present /\ EnrichLocation)
  \/ EnrichLocationAgain
  \/ LandCoverLoads
  \/ AdminResponds
  \/ MwsResponds
  \/ KylResponds
  \/ WeatherResponds

SpecRepeat == InitLoaded /\ [][NextRepeat]_vars

SpecCoreStack == Init /\ [][NextCoreStack]_vars

SpecLoads == Init /\ [][NextLoads]_vars

\* the initialized services of InitLoaded, with the order in which the
\* branches settle kept in call.order
InitOrder ==
  /\ InitAdapters /\ InitSync /\ version = "current"
  /\ initialized = TRUE
  /\ \E dk \in DKFiles :
       boundaries = [id \in BoundaryIds |->
                       IF id = "dakshina_kannada" THEN Loaded(dk) ELSE Loaded(WG_FILE)]
  /\ blocksLoaded \in BOOLEAN
  /\ loadedData = LayerIds
  /\ dw \in {[dataLoaded |-> FALSE, cachedData |-> << >>],
              [dataLoaded |-> TRUE, cachedData |-> DW_NORMAL]}
  /\ call = IdleCall
  /\ pointData = NotAsked
  /\ clock = 0
  /\ weatherCache = [k \in WxKeys |-> NoEntry]
  /\ wx = [i \in 1..MaxWx |-> IdleWx]
  /\ wxCount = 0
  /\ layerData = [id \in CatalogIds |-> NoData]
  /\ query = NoQuery
  /\ prev = NoPrev
  /\ cs = IdleCs
  /\ ini = [i \in 1..MaxEnrich |-> "idle"]
  /\ loads = NoLoads
  /\ lc = NotAsked
  /\ tracing = TRUE

\* calls of enrichLocation on the initialized services, their branches
\* settling in any order
NextOrder ==
  \/ GoOnline
  \/ GoOffline
  \/ EnrichLocation
  \/ LandCoverLoads
  \/ AdminResponds
  \/ MwsResponds
  \/ KylResponds
  \/ WeatherResponds

SpecOrder == InitOrder /\ [][NextOrder]_vars

\* the services with a land-cover cache loaded from some file
InitLandCover ==
  /\ InitAdapters /\ InitSync /\ version = "current"
  /\ initialized = TRUE
  /\ boundaries = [id \in BoundaryIds |-> NotLoaded]
  /\ blocksLoaded = FALSE
  /\ loadedData = {}
  /\ \E file \in LCFiles : dw = [dataLoaded |-> TRUE, cachedData |-> file]
  /\ call = IdleCall
  /\ pointData = NotAsked
  /\ clock = 0
  /\ weatherCache = [k \in WxKeys |-> NoEntry]
  /\ wx = [i \in 1..MaxWx |-> IdleWx]
  /\ wxCount = 0
  /\ layerData = [id \in CatalogIds |-> NoData]
  /\ query = NoQuery
  /\ prev = NoPrev
  /\ cs = IdleCs
  /\ ini = [i \in 1..MaxEnrich |-> "idle"]
  /\ loads = NoLoads
  /\ lc = NotAsked
  /\ tracing = FALSE

NextLandCover == GetLandCoverData

SpecLandCover == InitLandCover /\ [][NextLandCover]_vars

\* the legacy copy of the services: initialize() loads no boundary file
NextLegacy ==
  \/ GoOnline
  \/ GoOffline
  \/ SetApiKey
  \/ EnrichLocation
  \/ InitializeLayers
  \/ InitializeDynamicWorld
  \/ LandCoverLoads
  \/ AdminResponds
  \/ MwsResponds
  \/ KylResponds
  \/ WeatherResponds

SpecLegacy == InitLegacy /\ [][NextLegacy]_vars

(***************************************************************************)
(* Properties of the Sync Queue.                                           *)
(***************************************************************************)
\* the activations that are between setting isSyncing and the finally block
Iterating == {i \in Invs : inv[i].pc \in {"read", "get", "remote", "update"}}

\* C1: single-flight.  At most one drain pass iterates the pending set at a
\* time; a trigger (initial sync, timer, online event or direct call) that
\* arrives while a pass is running starts nothing - it returns the empty
\* result or does not call the drain at all - and no record is written
\* synced = true twice.
C1_SingleFlight ==
  /\ Cardinality(Iterating) <= 1
  /\ (lastEvent.kind = "started" => ~lastEvent.busy)
  /\ (lastEvent.busy => lastEvent.kind \in {"returned_empty", "not_called"})
  /\ (syncStatus.isSyncing <=> Iterating # {})
  /\ \A id \in ObsIds : enrichCount[id] <= 1

\* a direct call arrived while a pass was iterating over a record, and
\* returned the empty result
C1_Witness ==
  /\ lastEvent.kind = "returned_empty"
  /\ lastEvent.busy
  /\ \E i \in Invs : inv[i].pc \in {"get", "remote", "update"}

(***************************************************************************)
(* Properties of enrichLocation.                                           *)
(***************************************************************************)
Done == call.pc = "done"

\* what the administrative branch yields given what the remote API answered
AdminOutcome ==
  IF "admin_ok" \in call.log
  THEN RemoteAdmin(call.point, CHOOSE resp \in AdminResponses : AdminLabel(resp) = "admin_ok")
  ELSE LocalAdmin(call.point)

Range(seq) == {seq[k] : k \in 1..Len(seq)}

\* the point of the call lies inside a feature of the loaded boundary id
InsideBoundary(id) == isPointInBoundary(call.point, id).inside

\* the point of the call lies inside none of the shipped outlines
OutsideOutlines ==
  /\ ~booleanPointInPolygon(call.point, [rect |-> DKRect])
  /\ ~booleanPointInPolygon(call.point, [rect |-> WGRect])

\* C3: every branch that fails leaves a diagnostic in errors.  When the
\* administrative API answers with an error status, the result has an entry
\* of errors about the administrative failure, and the weather block is
\* there if the weather request succeeded.
C3_FailureLeavesError ==
  (Done /\ "admin_500" \in call.log) =>
     /\ "Admin data" \in Range(call.result.errors)
     /\ ("wx_ok" \in call.log => call.result.weather.present)

\* C4: the administrative block follows the chain remote API, district
\* boundary, Western Ghats boundary, nothing: a named remote answer gives a
\* corestack_api block; otherwise a point inside the district boundary gets
\* the district-level block (also when it is inside both boundaries);
\* otherwise a point inside the Western Ghats boundary gets that block;
\* otherwise there is no block.
C4_PriorityChain ==
  Done =>
    LET admin == call.result.admin
    IN IF "admin_ok" \in call.log
       THEN admin.present /\ admin.source = "corestack_api"
       ELSE IF InsideBoundary("dakshina_kannada")
       THEN /\ admin.present
            /\ admin.source = "boundary_geojson"
            /\ admin.district # UNDEFINED
       ELSE IF InsideBoundary("western_ghats")
       THEN /\ admin.present
            /\ admin.source = "boundary_geojson"
            /\ admin.state = "Within Western Ghats"
       ELSE ~admin.present

\* C5: a point outside every boundary polygon gets no administrative block
\* from the local stages: nothing is derived from a bounding box.
C5_OutsideIsAbsent ==
  (Done /\ "admin_ok" \notin call.log /\ OutsideOutlines)
     => ~call.result.admin.present

\* C6: a point inside a loaded boundary polygon gets an administrative
\* block with source 'boundary_geojson' and confidence 'verified', unless
\* the remote answer took priority; no block has confidence 'approximate'.
C6_InsideIsVerified ==
  Done =>
    /\ (call.result.admin.present => call.result.admin.confidence # "approximate")
    /\ (/\ "admin_ok" \notin call.log
        /\ \E id \in BoundaryIds : InsideBoundary(id))
         => /\ call.result.admin.present
            /\ call.result.admin.source = "boundary_geojson"
            /\ call.result.admin.confidence = "verified"

\* C7: a call with isOnline = false issues no remote request, returns no
\* watershed and no weather block, and a point inside the loaded district
\* boundary still gets its block from the boundary, with errors empty.
C7_OfflineCall ==
  ~call.isOnline =>
    /\ call.pc = "branches" =>
         /\ call.admin.status # "pending"
         /\ call.watershed.status # "pending"
         /\ call.weather.status # "pending"
    /\ call.log = {}
    /\ Done =>
         /\ ~call.result.watershed.present
         /\ ~call.result.weather.present
         /\ InsideBoundary("dakshina_kannada") =>
              /\ call.result.admin.present
              /\ call.result.admin.source = "boundary_geojson"
              /\ call.result.errors = << >>

\* C8: a land-cover block in the result has source 'dynamicworld_regional',
\* is there only when the regional cache is loaded, and its percentages are
\* those of the regional totals.
C8_LandCoverRegional ==
  (Done /\ call.result.landCover.present) =>
     /\ call.result.landCover.source = "dynamicworld_regional"
     /\ dw.dataLoaded
     /\ getRegionalStats(dw).found
     /\ call.result.landCover.regionalSummary = RegionalSummary(getRegionalStats(dw).stats)

\* C9: the land-cover adapter never returns a point-specific classification:
\* whatever the coordinate, the network state and the cache, a call of
\* fetchPointData returns null.
C9_NoPointClassification ==
  pointData.asked => ~pointData.value.present

\* C10: the watershed block is in the result only if, in this activation,
\* the remote lookup answered with a watershed id, and the block is that
\* answer; a call that is offline, a lookup that fails or names no id, and
\* a call that starts without a credential or with the network down all
\* end without the block.
C10_WatershedOnlyRemote ==
  /\ [](Done =>
         /\ call.result.watershed.present =>
              /\ "mws_id" \in call.log
              /\ call.isOnline
              /\ call.result.watershed.mwsId \in
                   {resp.mws_id : resp \in {r \in MwsResponses : r.ok}}
              /\ call.result.watershed.mwsId # UNDEFINED
              /\ call.result.watershed.source = "corestack_api"
         /\ ~call.isOnline => ~call.result.watershed.present
         /\ "mws_fail" \in call.log => ~call.result.watershed.present)
  /\ [][(/\ call' # call
          /\ call.pc \in {"idle", "done", "init_dw"}
          /\ call'.pc \in {"branches", "done"}
          /\ ~(hasApiKey /\ navOnline))
         => /\ call'.pc = "branches" =>
                 /\ call'.watershed.status = "fulfilled"
                 /\ ~call'.watershed.value.present
            /\ call'.pc = "done" => ~call'.result.watershed.present]_vars

\* the lookup answered with an id and the result carries the block
C10_Witness ==
  /\ Done
  /\ "mws_id" \in call.log
  /\ call.result.watershed.present
  /\ call.result.watershed.mwsId = "mws_12"

(***************************************************************************)
(* Properties of getWeather.                                               *)
(***************************************************************************)
\* activation j was called after activation i, for the same cache key,
\* less than the TTL after it, with the adapter online, and both returned,
\* i with a payload
SecondWithinTTL(i, j) ==
  /\ i # j
  /\ wx[i].pc = "returned" /\ wx[j].pc = "returned"
  /\ wx[i].seq < wx[j].seq
  /\ cacheKey(wx[i].coord) = cacheKey(wx[j].coord)
  /\ wx[j].startedAt < wx[i].startedAt + cacheDuration
  /\ wx[j].online
  /\ wx[i].result.present

\* C11: of two calls of getWeather for the same coordinate within the TTL,
\* the second makes no network request and returns the payload of the
\* first, also when it is issued before the request of the first answered.
C11_SecondCallServedFromCache ==
  \A i, j \in 1..MaxWx :
    SecondWithinTTL(i, j) => ~wx[j].fetched /\ wx[j].result = wx[i].result

\* C12: getWeather returns null when the adapter is offline and when the
\* fetch fails, and a payload it returns is never older than the TTL: it
\* is either the answer to the call's own request or a cached payload
\* whose expiry lies after the time of the call.
C12_NullOrFresh ==
  \A i \in 1..MaxWx :
    wx[i].pc = "returned" =>
      /\ ~wx[i].online => ~wx[i].result.present /\ ~wx[i].fetched
      /\ wx[i].failed => ~wx[i].result.present
      /\ wx[i].result.present =>
           /\ wx[i].startedAt < wx[i].result.fetchedAt + cacheDuration
           /\ wx[i].fetched => wx[i].result.fetchedAt >= wx[i].startedAt
           /\ ~wx[i].fetched => wx[i].result.fetchedAt <= wx[i].startedAt

\* the entry of the key has expired and the call fetched a new payload
C12_Witness ==
  \E i \in 1..MaxWx :
    /\ wx[i].pc = "returned"
    /\ wx[i].fetched
    /\ wx[i].result.present
    /\ \E j \in 1..MaxWx :
         /\ j # i
         /\ wx[j].pc = "returned"
         /\ wx[j].result.present
         /\ cacheKey(wx[j].coord) = cacheKey(wx[i].coord)
         /\ wx[j].seq < wx[i].seq
         /\ wx[j].result.fetchedAt + cacheDuration <= wx[i].startedAt

(***************************************************************************)
(* Properties of getValuesAtPoint.                                         *)
(***************************************************************************)
\* the call of getValuesAtPoint returned a mapping
Answered == query.asked /\ query.result.status = "fulfilled"

\* the layers of the answer that have the given format
AnsweredLayers(format) ==
  {id \in DOMAIN query.result.value.values : LayerOf(CATALOG, id).format = format}

\* the polygons of the layer's file that contain the point of the query
Containing(id) ==
  LET features == layerData[id].data
  IN {k \in 1..Len(features) :
        /\ IsPolygon(features[k])
        /\ ~features[k].bad
        /\ booleanPointInPolygon(query.point, features[k])}

\* the properties of feature k that the layer's declared fields select
Selected(id, k) ==
  LET layer == LayerOf(CATALOG, id)
      props == layerData[id].data[k].properties
  IN [f \in Range(layer.fields) |-> Get(props, f)]

\* C13: for a vector layer the values returned are those of the first
\* feature, in listed order, that contains the point; nothing of a later
\* containing feature is in the result.
C13_FirstContainingWins ==
  Answered =>
    \A id \in AnsweredLayers("geojson") :
      LET values == query.result.value.values[id]
          layer == LayerOf(CATALOG, id)
      IN IF Containing(id) = {} THEN values = NoProps
         ELSE LET first == CHOOSE k \in Containing(id) : \A m \in Containing(id) : k <= m
                  props == layerData[id].data[first].properties
              IN /\ layer.hasFields => values = Selected(id, first)
                 /\ ~layer.hasFields => values = props
                 /\ \A m \in Containing(id) \ {first} :
                      \A f \in DOMAIN values :
                        Get(layerData[id].data[m].properties, f) # Get(props, f)
                          => values[f] # Get(layerData[id].data[m].properties, f)

\* two features of a queried layer contain the point and differ in a
\* returned field
C13_Witness ==
  /\ Answered
  /\ \E id \in AnsweredLayers("geojson") :
       /\ Cardinality(Containing(id)) >= 2
       /\ query.result.value.values[id] # NoProps
       /\ \E f \in DOMAIN query.result.value.values[id] :
            \E k, m \in Containing(id) :
              Get(layerData[id].data[k].properties, f)
                # Get(layerData[id].data[m].properties, f)

\* C14: for a matched feature the values are exactly the declared fields of
\* the layer; a layer that declares none, its field list absent or empty,
\* gets all the properties of the feature.
C14_DeclaredFieldsOrAll ==
  Answered =>
    \A id \in AnsweredLayers("geojson") :
      Containing(id) # {} =>
        LET values == query.result.value.values[id]
            layer == LayerOf(CATALOG, id)
            first == CHOOSE k \in Containing(id) : \A m \in Containing(id) : k <= m
        IN IF layer.hasFields /\ Len(layer.fields) > 0
           THEN values = Selected(id, first)
           ELSE values = layerData[id].data[first].properties

\* the years of the records of a table
YearsOf(records) ==
  {records[k].year : k \in {k \in 1..Len(records) : "year" \in DOMAIN records[k]}}

\* the indices of the records of a table that have the given year
Group(records, year) ==
  {k \in 1..Len(records) : "year" \in DOMAIN records[k] /\ records[k].year = year}

\* C15: for a tabular layer whose records carry a year, _year is the
\* largest year in the table, _recordCount the number of records of that
\* year, and _sample the first records of that year, three at most.
C15_LatestYearGroup ==
  Answered =>
    \A id \in AnsweredLayers("csv") :
      LET records == layerData[id].data
          values == query.result.value.values[id]
      IN YearsOf(records) # {} =>
           LET group == Group(records, values._year)
           IN /\ values._year \in YearsOf(records)
              /\ \A y \in YearsOf(records) : y <= values._year
              /\ values._recordCount = Cardinality(group)
              /\ Len(values._sample) <= 3
              /\ Len(values._sample) = (IF Cardinality(group) < 3
                                        THEN Cardinality(group) ELSE 3)
              /\ \A j \in 1..Len(values._sample) :
                   \E k \in group :
                     /\ Cardinality({m \in group : m < k}) = j - 1
                     /\ values._sample[j] = records[k]

\* a table with the years 2018 and 2020 and more than three rows of 2020
C15_Witness ==
  /\ Answered
  /\ \E id \in AnsweredLayers("csv") :
       /\ YearsOf(layerData[id].data) = {2018, 2020}
       /\ Cardinality(Group(layerData[id].data, 2020)) > 3
       /\ query.result.value.values[id]._year = 2020

\* C16: the mapping has an entry exactly for the requested layers that are
\* in the catalog and have loaded data; a layer that was not requested or
\* whose data did not load adds no entry, and leaving such layers out of
\* the request changes nothing in what the call returns, error or not.
C16_OnlyLoadedRequestedLayers ==
  query.asked =>
    LET usable == {id \in query.ids : id \in CatalogIds /\ layerData[id].loaded}
    IN /\ Answered => DOMAIN query.result.value.values = usable
       /\ query.result = ValuesAtPoint(CATALOG, layerData, query.point, usable)

\* the request names a layer that is not listed and one whose data did not
\* load, and the answer has entries for the others only
C16_Witness ==
  /\ Answered
  /\ "unlisted" \in query.ids
  /\ \E id \in query.ids \cap CatalogIds : ~layerData[id].loaded
  /\ DOMAIN query.result.value.values # {}
  /\ DOMAIN query.result.value.values # query.ids


(***************************************************************************)
(* Properties of a repeated call of enrichLocation.                        *)
(***************************************************************************)
\* the repeated call has returned, it had the arguments of the call before,
\* the remote services answered both calls alike, and the backing state is
\* what it was between the two calls
SameCallSameState ==
  /\ Done /\ prev.present
  /\ call.point = prev.point /\ call.isOnline = prev.isOnline
  /\ call.log = prev.log
  /\ Backing = prev.backing

\* a LocationEnrichment without the time it was assembled at
Content(r) ==
  [localData |-> r.localData, admin |-> r.admin, landCover |-> r.landCover,
   watershed |-> r.watershed, weather |-> r.weather, errors |-> r.errors,
   isOnline |-> r.isOnline]

Endpoints == {"admin", "mws", "kyl", "layers", "waterbodies"}

\* the step issues a fetch of the adapter
SendsRequest == cs' # cs /\ cs'.pc \in Endpoints

\* C18: isAvailable() is true exactly when the adapter is online and holds
\* a credential; a call of the adapter's enrichLocation made while it is
\* false sends no request and returns an error value, and no request of
\* the adapter is ever issued while it is false.
C18_AvailableGuardsRequests ==
  /\ [](isAvailable <=> (navOnline /\ apiKey \notin {NULL, ""}))
  /\ [](cs.pc = "done" /\ ~cs.available =>
          /\ cs.sent = << >>
          /\ cs.result.error # ""
          /\ ~cs.result.admin /\ ~cs.result.mwsId)
  /\ [][SendsRequest => isAvailable]_vars

\* a call made offline, or after the user stored an empty key, has returned
\* its error without a request
C18_Witness ==
  /\ cs.pc = "done"
  /\ ~cs.available
  /\ cs.sent = << >>
  /\ cs.result.error = "CoreStack API not available"

\* C19: the adapter's key is only ever one the user entered: while the user
\* has never set a key the adapter holds no credential, hasApiKey() is
\* false, and no request carrying a key has been sent.
C19_NoKeyUnlessUserSetOne ==
  storedKey = NULL =>
    /\ apiKey \in {NULL, ""}
    /\ ~hasApiKey
    /\ \A k \in 1..Len(cs.keyed) : ~cs.keyed[k]

(***************************************************************************)
(* Properties of one record in a drain pass.                               *)
(***************************************************************************)
\* the record activation i is working on
Current(i) == inv[i].pending[inv[i].idx]

\* the step ends the work of activation i on its current record: the loop
\* goes on to the next record, or the pass ends
Finished(i) ==
  /\ inv[i].pc \in {"get", "remote", "update"}
  /\ inv'[i] # inv[i]
  /\ inv'[i].pc \notin {"remote", "update"}

\* ... with a result that has success = true
Succeeded(i) ==
  /\ Finished(i)
  /\ lastEvent'.kind = "settled" /\ lastEvent'.id = Current(i)
  /\ lastEvent'.success

Diagnosed(st, id) == \E k \in 1..Len(st.errors) : st.errors[k] = id

\* C20: in a drain pass a pending record is written synced = true exactly
\* when its enrichment succeeded; when it failed, by a missing record, an
\* unavailable adapter, an adapter error or an exception, the record is
\* left as it was and an entry naming it is appended to syncStatus.errors.
C20_SyncedIffSucceeded ==
  [][/\ \A id \in ObsIds :
          observations'[id] = "synced" /\ observations[id] # "synced" =>
            \E i \in Invs : Succeeded(i) /\ Current(i) = id
     /\ \A i \in Invs :
          Finished(i) =>
            /\ (Succeeded(i) /\ observations[Current(i)] = "unsynced" =>
                  observations'[Current(i)] = "synced")
            /\ (~Succeeded(i) =>
                  /\ observations'[Current(i)] = observations[Current(i)]
                  /\ syncStatus'.errors = Append(syncStatus.errors, Current(i)))]_vars

(***************************************************************************)
(* Properties of the provenance of an administrative block.                *)
(***************************************************************************)
\* what the polygons containing the point say about it: the properties of
\* the district outline around it, and the name of the range it lies in
FromPolygon(p) ==
  LET dkCheck == isPointInBoundary(p, "dakshina_kannada")
  IN {UNDEFINED, "Within Western Ghats"}
       \cup (IF dkCheck.inside
             THEN {Get(dkCheck.properties, k) : k \in {"ST_NM", "state", "DISTRICT", "district"}}
             ELSE {})

\* what the remote API answered for the point
FromRemote ==
  LET resp == CHOOSE r \in AdminResponses : AdminLabel(r) = "admin_ok"
  IN {UNDEFINED, resp.state_name, resp.district_name, resp.tehsil_name}

\* C21: every field of an admin block tagged 'verified' comes from the
\* polygon containing the query point or from the remote answer for that
\* point; a block name looked up by district in the local table, or a
\* default state or district name, is never part of a verified block.
C21_VerifiedFromPointSources ==
  Done /\ call.result.admin.present /\ call.result.admin.confidence = "verified" =>
    LET a == call.result.admin
        authentic == IF a.source = "corestack_api" THEN FromRemote
                     ELSE FromPolygon(call.point)
    IN {a.state, a.district, a.tehsil, a.block} \subseteq authentic

\* C22: when the matched feature lacks a field the layer declares, the
\* answer of getValuesAtPoint holds the marker "unknown" for that field,
\* not an undefined value, and the call does not throw for it.
C22_MissingFieldIsUnknown ==
  Answered =>
    \A id \in AnsweredLayers("geojson") :
      Containing(id) # {} =>
        LET values == query.result.value.values[id]
            layer == LayerOf(CATALOG, id)
            first == CHOOSE k \in Containing(id) : \A m \in Containing(id) : k <= m
            props == layerData[id].data[first].properties
        IN layer.hasFields =>
             \A f \in Range(layer.fields) :
               f \notin DOMAIN props =>
                 /\ f \in DOMAIN values
                 /\ values[f] = "unknown"

(***************************************************************************)
(* Properties of the loading of the static files.                          *)
(***************************************************************************)
\* C23: whatever calls of enrichLocation are made and however they
\* interleave, also when one starts before the first initialization has
\* finished, each boundary file and the land-cover cache are fetched at most
\* once in a session.
C23_FetchedAtMostOnce == \A f \in LoadSources : loads.count[f] <= 1

\* C24: a static file whose load has failed is not fetched again by a
\* query: after initialization no call of enrichLocation issues a load
\* request for a file that failed before.
C24_FailedNeverRefetched == loads.refetched = {}

(***************************************************************************)
(* Properties of the triggers of a drain pass.                             *)
(***************************************************************************)
AutoTriggers == {"initial", "timer", "online"}

\* C25: once startAutoSync has run, the timer and the 'online' event each
\* start a drain pass when the device is online and no pass is running; a
\* trigger fired while the device is offline starts no pass; and within a
\* pass the loop moves to the next record only by settling the one before.
C25_TriggersAndSequence ==
  /\ [](lastEvent.via \in AutoTriggers =>
          /\ (lastEvent.online /\ ~lastEvent.busy => lastEvent.kind = "started")
          /\ (~lastEvent.online => lastEvent.kind = "not_called")
          /\ (lastEvent.kind = "started" => lastEvent.online))
  /\ [][lastEvent'.via \in {"timer", "online"} => autoSync]_vars
  /\ [][\A i \in Invs :
          /\ inv[i].pc \in {"get", "remote", "update"}
          /\ inv'[i].pc \in {"get", "remote", "update"}
          /\ inv'[i].idx # inv[i].idx
          => /\ lastEvent'.kind = "settled"
             /\ lastEvent'.id = Current(i)
             /\ inv'[i].idx = inv[i].idx + 1
             /\ inv'[i].pc = "get"]_vars

\* the timer fired while the device was offline, a record was pending and no
\* pass was running: the drain was not called
C25_Witness ==
  /\ lastEvent.kind = "not_called" /\ lastEvent.via = "timer"
  /\ ~lastEvent.online /\ ~lastEvent.busy
  /\ \E id \in ObsIds : observations[id] = "unsynced"
  /\ \A i \in Invs : inv[i].pc = "idle"

(***************************************************************************)
(* Properties of the remote requests of one call of enrichLocation.        *)
(***************************************************************************)
RemoteEndpoints == {"admin", "mws", "kyl", "weather"}

\* C26: within one call of enrichLocation no remote request is repeated:
\* the administrative lookup, the watershed-id lookup, the watershed
\* indicators and the weather forecast are each requested at most once,
\* whether the request succeeds or fails.
C26_NoRetry ==
  /\ \A e \in RemoteEndpoints :
       Cardinality({k \in 1..Len(call.requests) : call.requests[k] = e}) <= 1
  /\ Range(call.requests) \subseteq RemoteEndpoints

\* the administrative lookup, the watershed-id lookup and the forecast have
\* all failed, each after one request, and the call has returned
C26_Witness ==
  /\ Done
  /\ {"admin_500", "mws_fail", "wx_err"} \subseteq call.log
  /\ call.requests = << "admin", "mws", "weather" >>

(***************************************************************************)
(* Properties of the land-cover block.                                     *)
(***************************************************************************)
\* the record getRegionalStats() returned has a positive total area
PositiveRecord == lc.asked /\ lc.stats.found /\ Total(lc.stats.stats) > 0

\* C27: for a regional record with a positive total area, dominantClass is
\* the first class, in the order of the nine declared land-cover classes,
\* whose percentage of the total is the largest.
C27_DominantIsFirstMaximal ==
  PositiveRecord =>
    LET st == lc.stats.stats
        pct(k) == Pct(ClassArea(st, DW_CLASSES[k]), Total(st))
        best == CHOOSE k \in 1..Len(DW_CLASSES) :
                  /\ \A j \in 1..Len(DW_CLASSES) : pct(j) <= pct(k)
                  /\ \A j \in 1..(k - 1) : pct(j) < pct(k)
    IN /\ lc.landCover.status = "fulfilled"
       /\ lc.landCover.value.source = "dynamicworld_regional"
       /\ lc.landCover.value.regionalSummary.dominantClass = DW_CLASSES[best]

\* C29: getRegionalStats() without a year returns a record of the latest
\* year among the records loaded, in whatever order the file lists them,
\* and the year of the land-cover block is that latest year.
C29_LatestYear ==
  lc.asked =>
    LET latest == Max({dw.cachedData[k].year : k \in 1..Len(dw.cachedData)})
    IN /\ lc.stats.found
       /\ lc.stats.stats.year = latest
       /\ (Total(lc.stats.stats) > 0 =>
             lc.landCover.value.regionalSummary.year = latest)

(***************************************************************************)
(* Properties of the order in which the branches settle.                   *)
(***************************************************************************)
\* what the watershed branch yields given what the remote API answered
WatershedOutcome ==
  IF "mws_id" \in call.log
  THEN WatershedBlock((CHOOSE r \in MwsResponses : Truthy(r.mws_id)).mws_id,
                      IF "kyl_ok" \in call.log
                      THEN (CHOOSE r \in KylResponses : r.ok).indicators ELSE {})
  ELSE NoBlock

\* C28: the content of the result does not depend on the order in which the
\* five branches settle: whatever that order, every block is what its own
\* branch yielded for the outcomes it met, and errors lists the rejected
\* branches in the order the branches are declared in.
C28_OrderIndependent ==
  Done /\ Len(call.order) = 5 =>
    /\ call.result.localData = BlockOf(getLocalData(call.point))
    /\ call.result.admin = BlockOf(AdminOutcome)
    /\ call.result.landCover = BlockOf(getLandCoverData(dw))
    /\ call.result.watershed = WatershedOutcome
    /\ call.result.weather =
         (IF call.log \cap {"wx_ok", "wx_hit"} # {} THEN WeatherBlock ELSE NoBlock)
    /\ call.result.errors =
         (IF getLocalData(call.point).status = "rejected"
          THEN << "Local data" >> ELSE << >>)
         \o (IF AdminOutcome.status = "rejected"
             THEN << "Admin data" >> ELSE << >>)

\* the administrative branch was rejected after its remote request failed,
\* the weather and the watershed settled after it and the land cover last,
\* and their blocks are in the result
C28_Witness ==
  /\ Done
  /\ call.order = << "localData", "admin", "weather", "watershed", "landCover" >>
  /\ call.result.errors = << "Admin data" >>
  /\ call.result.weather.present /\ call.result.watershed.present
  /\ call.result.landCover.present

\* the same outcomes, the branches settling in another order
C28_WitnessReversed ==
  /\ Done
  /\ call.order = << "localData", "landCover", "watershed", "weather", "admin" >>
  /\ call.result.errors = << "Admin data" >>
  /\ call.result.weather.present /\ call.result.watershed.present
  /\ call.result.landCover.present

(***************************************************************************)
(* Properties of the isSyncing flag.                                       *)
(***************************************************************************)
\* C30: isSyncing is set only while a pass is inside its try block; every
\* pass that set it resets it, also when reading the pending set or
\* enriching a record throws; the step in which a pass throws leaves the
\* flag reset, so the next trigger is not turned away by it.
C30_FlagFollowsPass ==
  /\ [](syncStatus.isSyncing <=> Iterating # {})
  /\ (syncStatus.isSyncing ~> ~syncStatus.isSyncing)
  /\ [][\A i \in Invs : inv'[i].threw /\ ~inv[i].threw
                        => ~syncStatus'.isSyncing]_vars

\* a pass threw and is still in its finally block while a later trigger has
\* started the next pass
C30_Witness ==
  \E i, j \in Invs : /\ inv[i].threw /\ inv[i].pc = "counts"
                     /\ inv[j].pc = "read" /\ syncStatus.isSyncing
                     /\ lastEvent.kind = "started"
====
